---- MODULE Spec2Model ----
(***************************************************************************)
(* State-machine model of the Svelte migration analyser                    *)
(* (src/src/analyser.ts): the rule table, the per-line scanner             *)
(* (analyzeFile), the optional augmentation call and the batch             *)
(* coordinator (analyzeFiles).                                             *)
(*                                                                         *)
(* Strings are TLA+ strings; the character at position p of s is           *)
(* SubSeq(s, p, p).  A regular expression is a sequence of atoms and is    *)
(* matched by computing, atom after atom, the set of positions a match     *)
(* can have reached, which is exactly the existence of a match under       *)
(* backtracking.                                                           *)
(***************************************************************************)
EXTENDS Integers, Sequences, FiniteSets, TLC

(***************************************************************************)
(* Bounds of the model.                                                    *)
(***************************************************************************)
MaxFiles == 3
MaxLines == 2

(***************************************************************************)
(* State.                                                                  *)
(*   hasService  this.anthropicService is set                              *)
(*   pc          "idle", "reading" (awaiting fs.readFile), "augmenting"    *)
(*               (awaiting analyzeSvelteFile), "returned", "raised"        *)
(*   files       the argument of analyzeFiles                              *)
(*   results     the results array of analyzeFiles                         *)
(*   cur         the suspended analyzeFile frame (at most one)             *)
(*   call        the arguments of a direct analyzeFile call                *)
(*   ret         the value a direct analyzeFile call returned              *)
(*   inflight    the pending I/O operations (file reads, service calls)    *)
(*   readLog     history: the outcome of every completed read              *)
(*   svcLog      history: every call of analyzeSvelteFile and its outcome  *)
(* The augmentation service (AnthropicService):                            *)
(*   apc         "idle", "awaiting" (awaiting client.messages.create),     *)
(*               "returned", "threw"                                       *)
(*   areq        the method called and the text the API answered with      *)
(*   aret        the value the method returned, or the error it threw      *)
(* The action's run (run of index.ts):                                     *)
(*   config      the inputs and the event the run read at its start        *)
(*   rpc         "init", "discovering" (awaiting the file list),           *)
(*               "analysing" (awaiting analyzeFiles), "commenting"         *)
(*               (awaiting createOrUpdateComment), "done"                  *)
(*   outputs     the outputs set with core.setOutput                       *)
(*   failed      the messages of the core.setFailed calls, in order        *)
(*   comments    the summaries passed to createOrUpdateComment, in order   *)
(* The platform service (GitHubService) and the pull request:              *)
(*   gpc         "idle", "listingFiles", "listingComments",                *)
(*               "writingComment", "creatingCheck", "annotating" (each     *)
(*               awaiting a request), "returned", "threw"                  *)
(*   gcall       the operation in progress or last completed, its          *)
(*               arguments and its local variables                         *)
(*   gret        the list getChangedSvelteFiles returned                   *)
(*   prComments  the comments of the pull request, in order of creation    *)
(*   ghLog       history: every request made to the platform API           *)
(***************************************************************************)
VARIABLES hasService, pc, files, results, cur, call, ret, inflight,
          readLog, svcLog, apc, areq, aret, config, rpc, outputs, failed,
          comments, gpc, gcall, gret, prComments, ghLog

serviceVars == <<apc, areq, aret>>
runVars == <<config, rpc, outputs, failed, comments>>
githubVars == <<gpc, gcall, gret, prComments, ghLog>>

vars == <<hasService, pc, files, results, cur, call, ret, inflight,
          readLog, svcLog, apc, areq, aret, config, rpc, outputs, failed,
          comments, gpc, gcall, gret, prComments, ghLog>>

(***************************************************************************)
(* Characters and character classes of the regular expressions.            *)
(***************************************************************************)
CharAt(s, p) == IF p >= 1 /\ p <= Len(s) THEN SubSeq(s, p, p) ELSE ""

WordChars ==
    {"a","b","c","d","e","f","g","h","i","j","k","l","m","n","o","p","q","r",
     "s","t","u","v","w","x","y","z","A","B","C","D","E","F","G","H","I","J",
     "K","L","M","N","O","P","Q","R","S","T","U","V","W","X","Y","Z","0","1",
     "2","3","4","5","6","7","8","9","_"}

SpaceChars == {" ", "\t", "\r", "\f"}

DigitChars == {"0","1","2","3","4","5","6","7","8","9"}

\* ['"`]: the backquote cannot be written in a TLA+ string, and no modelled
\* input contains one
QuoteChars == {"'", "\""}

InClass(cls, c) ==
    CASE cls = "w" -> c \in WordChars
      [] cls = "s" -> c \in SpaceChars
      [] cls = "q" -> c \in QuoteChars
      [] cls = "d" -> c \in DigitChars
      [] OTHER -> FALSE

\* the literal lit occurs in s at position p
HasAt(s, p, lit) ==
    /\ p >= 1
    /\ p + Len(lit) - 1 <= Len(s)
    /\ SubSeq(s, p, p + Len(lit) - 1) = lit

\* every character of s in positions p..q-1 is of class cls
AllInClass(s, p, q, cls) == \A k \in p..(q - 1) : InClass(cls, CharAt(s, k))

(***************************************************************************)
(* Regular-expression atoms.                                               *)
(***************************************************************************)
Lit(v)     == [t |-> "lit",  v |-> {v}]
Alt(vs)    == [t |-> "lit",  v |-> vs]
One(cls)   == [t |-> "one",  v |-> {cls}]
Plus(cls)  == [t |-> "plus", v |-> {cls}]
Star(cls)  == [t |-> "star", v |-> {cls}]
NotAheadIgnored(vs) == [t |-> "neg", v |-> {}]
NotAhead(vs) == [t |-> "neg", v |-> vs]
WordBoundary == [t |-> "wb",  v |-> {}]
LineStart    == [t |-> "bol", v |-> {}]

\* the positions reached from a position of P by matching one atom
Step(atom, s, P) ==
    CASE atom.t = "lit" ->
           UNION {{p + Len(lit) : lit \in {l \in atom.v : HasAt(s, p, l)}} : p \in P}
      [] atom.t = "one" ->
           {p + 1 : p \in {q \in P : \E cls \in atom.v : q <= Len(s) /\ InClass(cls, CharAt(s, q))}}
      [] atom.t = "plus" ->
           UNION {{q \in (p + 1)..(Len(s) + 1) : \E cls \in atom.v : AllInClass(s, p, q, cls)} : p \in P}
      [] atom.t = "star" ->
           UNION {{q \in p..(Len(s) + 1) : \E cls \in atom.v : AllInClass(s, p, q, cls)} : p \in P}
      [] atom.t = "neg" ->
           {p \in P : \A lit \in atom.v : ~HasAt(s, p, lit)}
      [] atom.t = "wb" ->
           {p \in P : (CharAt(s, p - 1) \in WordChars) # (CharAt(s, p) \in WordChars)}
      [] atom.t = "bol" ->
           {p \in P : p = 1}
      [] OTHER -> {}

RECURSIVE MatchFrom(_, _, _, _)
MatchFrom(regex, k, s, P) ==
    IF k > Len(regex) \/ P = {}
    THEN P
    ELSE MatchFrom(regex, k + 1, s, Step(regex[k], s, P))

\* line.match(regex) is not null: the (non-global) regex matches somewhere in s
Matches(regex, s) == MatchFrom(regex, 1, s, 1..(Len(s) + 1)) # {}

(***************************************************************************)
(* The rule table (getMigrationPatterns), in the order of the source.      *)
(***************************************************************************)
Rule(rule, regex, message, suggestion, severity) ==
    [rule |-> rule, regex |-> regex, message |-> message,
     suggestion |-> suggestion, severity |-> severity]

Patterns == <<
    Rule("reactive-statement",
         <<LineStart, Star("s"), Lit("$:"), Plus("s")>>,
         "Reactive statement ($:) should be replaced with $derived or $effect",
         "Use $derived for computed values or $effect for side effects",
         "warning"),
    Rule("export-let",
         <<Lit("export"), Plus("s"), Lit("let"), Plus("s"), Plus("w")>>,
         "export let should be replaced with $props()",
         "Replace with: let { propName } = $props()",
         "warning"),
    Rule("on-directive",
         <<One("s"), Lit("on:"), Plus("w"), Lit("=")>>,
         "on: event directives should be replaced with event properties",
         "Replace on:click with onclick",
         "warning"),
    Rule("slot-usage",
         <<Lit("<slot"), Plus("s"), Lit("name=")>>,
         "Named slots should be replaced with snippets",
         "Use {#snippet name()} and {@render name()} instead",
         "warning"),
    Rule("create-event-dispatcher",
         <<Lit("createEventDispatcher")>>,
         "createEventDispatcher is deprecated in Svelte 5",
         "Use callback props instead of createEventDispatcher",
         "error"),
    Rule("lifecycle-hooks",
         <<WordBoundary, Alt({"beforeUpdate", "afterUpdate"}), WordBoundary>>,
         "beforeUpdate/afterUpdate are deprecated in Svelte 5",
         "Use $effect.pre() and $effect() instead",
         "warning"),
    Rule("store-subscription",
         <<Lit("$"), NotAhead({"state", "derived", "effect", "props", "inspect"}),
           Plus("w"), Star("s"), Lit("=")>>,
         "Store auto-subscriptions with $ prefix may need to be updated",
         "Consider using $state for reactive variables",
         "warning"),
    Rule("component-instantiation",
         <<Lit("new"), Plus("s"), Plus("w"), Star("s"), Lit("(")>>,
         "Component instantiation with \"new\" is deprecated",
         "Use mount() or hydrate() instead of new Component()",
         "error"),
    Rule("bind-this",
         <<Lit("bind:this=")>>,
         "bind:this behavior has changed in Svelte 5",
         "bind:this no longer provides $set, $on, $destroy methods",
         "warning"),
    Rule("transition-modifiers",
         <<WordBoundary, Alt({"in", "out", "transition"}), Lit(":"), Plus("w"),
           Lit("|"), NotAhead({"global"})>>,
         "Transition modifiers may need |global in Svelte 5",
         "Transitions are local by default, add |global if needed",
         "warning"),
    Rule("svelte-component",
         <<Lit("<svelte:component"), Plus("s"), Lit("this=")>>,
         "svelte:component is no longer necessary in Svelte 5",
         "You can use dynamic components directly: <Thing />",
         "warning"),
    Rule("double-dollar-props",
         <<Lit("$$"), Alt({"props", "restProps"})>>,
         "$$props and $$restProps are deprecated",
         "Use destructuring with rest in $props(): let { foo, ...rest } = $props()",
         "error"),
    Rule("double-dollar-slots",
         <<Lit("$$slots")>>,
         "$$slots is deprecated in Svelte 5",
         "Use snippet parameters instead of $$slots",
         "error"),
    Rule("let-directive",
         <<Lit("let:"), Plus("w")>>,
         "let: directive in slots should be replaced with snippet parameters",
         "Use {#snippet name(param)} instead of let:param",
         "warning"),
    Rule("event-modifiers",
         <<One("s"), Lit("on:"), Plus("w"), Lit("|"), Plus("w")>>,
         "Event modifiers are deprecated in Svelte 5",
         "Handle event.preventDefault(), event.stopPropagation() etc. in the handler",
         "warning"),
    Rule("svelte-fragment",
         <<Lit("<svelte:fragment")>>,
         "svelte:fragment should be replaced with snippets",
         "Use {#snippet} blocks instead of svelte:fragment",
         "warning"),
    Rule("svelte-component-class",
         <<Lit("SvelteComponent")>>,
         "SvelteComponent class is deprecated in Svelte 5",
         "Use Component type instead for typing",
         "error"),
    Rule("tick-function",
         <<WordBoundary, Lit("tick()")>>,
         "tick() is now async in Svelte 5",
         "Use await tick() or tick().then()",
         "warning"),
    Rule("component-set-method",
         <<Lit(".$set(")>>,
         "Component.$set() method is deprecated",
         "Pass props directly to components instead",
         "error"),
    Rule("component-on-method",
         <<Lit(".$on(")>>,
         "Component.$on() method is deprecated",
         "Use callback props instead of $on",
         "error"),
    Rule("component-destroy-method",
         <<Lit(".$destroy(")>>,
         "Component.$destroy() method is deprecated",
         "Use unmount() function instead",
         "error"),
    Rule("dispatch-function-call",
         <<Lit("dispatch("), One("q"), Plus("w"), One("q")>>,
         "Event dispatching should use callback props",
         "Replace dispatch with callback props",
         "warning")
>>

(***************************************************************************)
(* Inputs of the model.                                                    *)
(***************************************************************************)
Paths == {"a.svelte", "b.svelte"}

\* contents a file read can deliver in a batch
FileContents ==
    {"<script>\n  let x = $state(0);\n</script>",
     "export let name;",
     "const dispatch = createEventDispatcher();\n\nexport let c = new SvelteComponent(); $count = 5;"}

\* lines the contents given to a direct analyzeFile call are made of
LinePool ==
    {"",
     "  let x = $state(0);",
     "$state = 1; $derived= 2; $effect =3; $props  = 4; $inspect = 5;",
     "\t$: doubled = count * 2;",
     "export let c = new SvelteComponent({ $$props, $$slots });",
     "import { beforeUpdate, afterUpdate } from 'svelte'; const dispatch = createEventDispatcher();",
     "<button on:click|once={() => dispatch('go')} let:item on:blur={$count = 5}>",
     "<div bind:this={el} transition:fade|local><slot name=\"a\" /><svelte:fragment /><svelte:component this={C} />",
     "await tick(); a.$set(1); a.$on('x'); a.$destroy();"}

RECURSIVE JoinedLines(_)
JoinedLines(n) ==
    IF n = 1
    THEN LinePool
    ELSE {c \o "\n" \o l : c \in JoinedLines(n - 1), l \in LinePool}

ScanContents == UNION {JoinedLines(n) : n \in 1..MaxLines}

RECURSIVE SeqsOfLen(_, _)
SeqsOfLen(S, n) ==
    IF n = 0
    THEN {<<>>}
    ELSE {Append(q, e) : q \in SeqsOfLen(S, n - 1), e \in S}

FileLists == UNION {SeqsOfLen(Paths, n) : n \in 0..MaxFiles}

\* the rejection reasons of fs.readFile and of the augmentation service
ReadErrors == {"Error: ENOENT: no such file or directory"}
ServiceErrors == {"Error: API Error"}

\* the suggestion lists the augmentation service can resolve with
AiResponses == {<<>>, <<"Use $props() instead", "Consider $state for reactivity">>}

(***************************************************************************)
(* analyzeFile: the scan.                                                  *)
(***************************************************************************)
Min(S) == CHOOSE m \in S : \A o \in S : m <= o

\* content.split('\n')
RECURSIVE Split(_)
Split(content) ==
    LET nl == {p \in 1..Len(content) : CharAt(content, p) = "\n"}
    IN  IF nl = {}
        THEN <<content>>
        ELSE <<SubSeq(content, 1, Min(nl) - 1)>>
                 \o Split(SubSeq(content, Min(nl) + 1, Len(content)))

\* the arrays outlive the call: a scan starts from the findings of the last result
NewFindingsShared ==
    IF results = <<>>
    THEN [issues |-> <<>>, warnings |-> <<>>]
    ELSE [issues |-> results[Len(results)].issues,
          warnings |-> results[Len(results)].warnings]

\* const issues = []; const warnings = []
NewFindings == [issues |-> <<>>, warnings |-> <<>>]

\* the loop index used as line number
LineNumberZeroBased(i) == i

\* const lineNumber = i + 1
LineNumber(i) == i + 1

MakeIssue(pattern, lineNumber) ==
    [line |-> lineNumber, message |-> pattern.message,
     suggestion |-> pattern.suggestion, severity |-> pattern.severity,
     rule |-> pattern.rule]

\* the two branches exchanged
PushFindingSwapped(acc, pattern, issue) ==
    IF pattern.severity = "error"
    THEN [acc EXCEPT !.warnings = Append(@, issue)]
    ELSE [acc EXCEPT !.issues = Append(@, issue)]

\* if (pattern.severity === 'error') issues.push(issue) else warnings.push(issue)
PushFinding(acc, pattern, issue) ==
    IF pattern.severity = "error"
    THEN [acc EXCEPT !.issues = Append(@, issue)]
    ELSE [acc EXCEPT !.warnings = Append(@, issue)]

\* the loop over the patterns left at the first match
RECURSIVE ScanPatternsFirstMatch(_, _, _, _)
ScanPatternsFirstMatch(line, lineNumber, k, acc) ==
    IF k > Len(Patterns)
    THEN acc
    ELSE IF Matches(Patterns[k].regex, line)
         THEN PushFinding(acc, Patterns[k], MakeIssue(Patterns[k], lineNumber))
         ELSE ScanPatternsFirstMatch(line, lineNumber, k + 1, acc)

\* for (const pattern of patterns) { ... }, from the k-th pattern on
RECURSIVE ScanPatterns(_, _, _, _)
ScanPatterns(line, lineNumber, k, acc) ==
    IF k > Len(Patterns)
    THEN acc
    ELSE ScanPatterns(line, lineNumber, k + 1,
             IF Matches(Patterns[k].regex, line)
             THEN PushFinding(acc, Patterns[k], MakeIssue(Patterns[k], lineNumber))
             ELSE acc)

\* every line that is not empty scanned twice
RECURSIVE ScanLinesTwice(_, _, _)
ScanLinesTwice(lines, i, acc) ==
    IF i >= Len(lines)
    THEN acc
    ELSE ScanLinesTwice(lines, i + 1,
             IF lines[i + 1] = ""
             THEN acc
             ELSE ScanPatterns(lines[i + 1], LineNumber(i), 1,
                               ScanPatterns(lines[i + 1], LineNumber(i), 1, acc)))

\* for (let i = 0; i < lines.length; i++) { ... }, from index i on
RECURSIVE ScanLines(_, _, _)
ScanLines(lines, i, acc) ==
    IF i >= Len(lines)
    THEN acc
    ELSE ScanLines(lines, i + 1,
             IF lines[i + 1] = ""
             THEN acc
             ELSE ScanPatterns(lines[i + 1], LineNumber(i), 1, acc))

Scan(content) == ScanLines(Split(content), 0, NewFindings)

\* the scan of every content of the model, computed once
FileScan == [content \in FileContents |-> Scan(content)]
DirectScan == [content \in ScanContents |-> Scan(content)]

(***************************************************************************)
(* analyzeFile: the augmentation call and the result.                      *)
(***************************************************************************)
Undefined == [defined |-> FALSE, value |-> <<>>]
Defined(v) == [defined |-> TRUE, value |-> v]

\* the test of the findings left out
ShouldAugmentAnyFile(service, acc) == service

\* this.anthropicService && (issues.length > 0 || warnings.length > 0)
ShouldAugment(service, acc) ==
    service /\ (Len(acc.issues) > 0 \/ Len(acc.warnings) > 0)

\* the service call without try/catch
AnalyzeFileNoCatch(error) == [caught |-> FALSE, aiSuggestions |-> Undefined]

\* catch (error) { console.warn(...) } around the service call
AnalyzeFileCatch(error) == [caught |-> TRUE, aiSuggestions |-> Undefined]

FileResult(filename, acc, aiSuggestions) ==
    [file |-> filename, issues |-> acc.issues, warnings |-> acc.warnings,
     aiSuggestions |-> aiSuggestions]

(***************************************************************************)
(* analyzeFiles.                                                           *)
(***************************************************************************)
\* the synthetic finding filed under warnings as well
ReadErrorResultAlsoWarning(file, error) ==
    [file |-> file,
     issues |-> <<[line |-> 1, message |-> "Failed to read file: " \o error,
                   severity |-> "error", rule |-> "file-read-error"]>>,
     warnings |-> <<[line |-> 1, message |-> "Failed to read file: " \o error,
                     severity |-> "error", rule |-> "file-read-error"]>>,
     aiSuggestions |-> Undefined]

\* the result pushed by the catch block of analyzeFiles
ReadErrorResult(file, error) ==
    [file |-> file,
     issues |-> <<[line |-> 1, message |-> "Failed to read file: " \o error,
                   severity |-> "error", rule |-> "file-read-error"]>>,
     warnings |-> <<>>,
     aiSuggestions |-> Undefined]

\* the loop body without try/catch
AnalyzeFilesNoCatch(file, error) ==
    [caught |-> FALSE, result |-> ReadErrorResult(file, error)]

\* catch (error) { ... results.push({...}) } around the read and analyzeFile
AnalyzeFilesCatch(file, error) ==
    [caught |-> TRUE, result |-> ReadErrorResult(file, error)]

\* results.unshift(result)
PushResultFront(rs, r) == <<r>> \o rs

\* results.push(result)
PushResult(rs, r) == Append(rs, r)

\* every read started at once (files.map without await in between)
ReadsStartedAtOnce(fs, k) ==
    IF k = 1 THEN {[kind |-> "read", idx |-> j] : j \in 1..Len(fs)} ELSE {}

\* the reads that start when the loop reaches the k-th file of fs
ReadsStartedAt(fs, k) ==
    IF k <= Len(fs) THEN {[kind |-> "read", idx |-> k]} ELSE {}

\* the inputs of the run before it has read them
NoConfig ==
    [filterChangedFiles |-> FALSE, failOnError |-> FALSE, failOnWarning |-> FALSE,
     anthropicApiKey |-> "", enableAiAnalysis |-> FALSE, eventName |-> "",
     pullNumber |-> 0]

(***************************************************************************)
(* The analyser after construction, and its operations.                    *)
(***************************************************************************)
Init ==
    /\ hasService \in BOOLEAN
    /\ pc = "idle"
    /\ files = <<>>
    /\ results = <<>>
    /\ cur = <<>>
    /\ call = <<>>
    /\ ret = <<>>
    /\ inflight = {}
    /\ readLog = <<>>
    /\ svcLog = <<>>
    /\ apc = "idle"
    /\ areq = <<>>
    /\ aret = <<>>
    /\ config = NoConfig
    /\ rpc = "init"
    /\ outputs = <<>>
    /\ failed = <<>>
    /\ comments = <<>>
    /\ gpc = "idle"
    /\ gcall = <<>>
    /\ gret = <<>>
    /\ prComments = <<>>
    /\ ghLog = <<>>

ServiceOp(k) == [kind |-> "service", idx |-> k]

\* await this.anthropicService.analyzeSvelteFile(filename, content, issues, warnings)
Suspend(caller, op, filename, content, acc) ==
    /\ cur' = <<[caller |-> caller, idx |-> op.idx, filename |-> filename,
                 content |-> content, acc |-> acc]>>
    /\ svcLog' = Append(svcLog, [idx |-> op.idx, filename |-> filename,
                                 content |-> content, issues |-> acc.issues,
                                 warnings |-> acc.warnings,
                                 outcome |-> "pending"])
    /\ inflight' = (inflight \ {op}) \cup {ServiceOp(op.idx)}
    /\ pc' = "augmenting"

\* analyzeFiles: the k-th iteration ends with result r, the next one begins
Continue(op, r) ==
    /\ results' = PushResult(results, r)
    /\ inflight' = (inflight \ {op}) \cup ReadsStartedAt(files, op.idx + 1)
    /\ pc' = IF op.idx + 1 <= Len(files) THEN "reading" ELSE "returned"

\* an exception leaves the public entry point
Raise(op) ==
    /\ pc' = "raised"
    /\ inflight' = inflight \ {op}

\* analyzeFiles(fs) runs up to its first await
AnalyzeFilesCalled(fs) ==
    /\ pc = "idle"
    /\ files' = fs
    /\ results' = <<>>
    /\ inflight' = ReadsStartedAt(fs, 1)
    /\ pc' = IF 1 <= Len(fs) THEN "reading" ELSE "returned"
    /\ UNCHANGED <<hasService, cur, call, ret, readLog, svcLog>>
    /\ UNCHANGED serviceVars

\* analyzer.analyzeFiles(fs)
CallAnalyzeFiles(fs) ==
    /\ AnalyzeFilesCalled(fs)
    /\ UNCHANGED <<runVars, githubVars>>

\* fs.readFile resolves with content: analyzeFile runs up to its await or end
ReadResolved(op, content) ==
    /\ op \in inflight
    /\ op.kind = "read"
    /\ readLog' = Append(readLog, [idx |-> op.idx, ok |-> TRUE,
                                   content |-> content, error |-> ""])
    /\ LET file == files[op.idx]
           acc == FileScan[content]
       IN  IF ShouldAugment(hasService, acc)
           THEN /\ Suspend("analyzeFiles", op, file, content, acc)
                /\ UNCHANGED results
           ELSE /\ Continue(op, FileResult(file, acc, Undefined))
                /\ UNCHANGED <<cur, svcLog>>
    /\ UNCHANGED <<hasService, files, call, ret>>
    /\ UNCHANGED <<serviceVars, runVars, githubVars>>

\* fs.readFile rejects with error
ReadRejected(op, error) ==
    /\ op \in inflight
    /\ op.kind = "read"
    /\ readLog' = Append(readLog, [idx |-> op.idx, ok |-> FALSE,
                                   content |-> "", error |-> error])
    /\ LET c == AnalyzeFilesCatch(files[op.idx], error)
       IN  IF c.caught
           THEN Continue(op, c.result)
           ELSE Raise(op) /\ UNCHANGED results
    /\ UNCHANGED <<hasService, files, cur, call, ret, svcLog>>
    /\ UNCHANGED <<serviceVars, runVars, githubVars>>

\* analyzeFile returns r to its caller
Return(op, frame, r) ==
    IF frame.caller = "analyzeFiles"
    THEN Continue(op, r) /\ UNCHANGED ret
    ELSE /\ ret' = <<r>>
         /\ pc' = "returned"
         /\ inflight' = inflight \ {op}
         /\ UNCHANGED results

SetOutcome(o) == [svcLog EXCEPT ![Len(svcLog)].outcome = o]

\* analyzeSvelteFile resolves with suggestions
ServiceResolved(op, suggestions) ==
    /\ op \in inflight
    /\ op.kind = "service"
    /\ cur # <<>>
    /\ svcLog' = SetOutcome("ok")
    /\ cur' = <<>>
    /\ Return(op, cur[1], FileResult(cur[1].filename, cur[1].acc, Defined(suggestions)))
    /\ UNCHANGED <<hasService, files, call, readLog>>
    /\ UNCHANGED <<serviceVars, runVars, githubVars>>

\* analyzeSvelteFile rejects with error
ServiceRejected(op, error) ==
    /\ op \in inflight
    /\ op.kind = "service"
    /\ cur # <<>>
    /\ svcLog' = SetOutcome("failed")
    /\ cur' = <<>>
    /\ LET frame == cur[1]
           c == AnalyzeFileCatch(error)
           outer == AnalyzeFilesCatch(frame.filename, error)
       IN  IF c.caught
           THEN Return(op, frame, FileResult(frame.filename, frame.acc, c.aiSuggestions))
           ELSE IF frame.caller = "analyzeFiles" /\ outer.caught
                THEN Continue(op, outer.result) /\ UNCHANGED ret
                ELSE Raise(op) /\ UNCHANGED <<results, ret>>
    /\ UNCHANGED <<hasService, files, call, readLog>>
    /\ UNCHANGED <<serviceVars, runVars, githubVars>>

\* analyzer.analyzeFile(filename, content), called directly
CallAnalyzeFile(filename, content) ==
    /\ pc = "idle"
    /\ call' = <<[filename |-> filename, content |-> content]>>
    /\ LET acc == DirectScan[content]
           op == [kind |-> "call", idx |-> 0]
       IN  IF ShouldAugment(hasService, acc)
           THEN /\ Suspend("direct", op, filename, content, acc)
                /\ UNCHANGED ret
           ELSE /\ ret' = <<FileResult(filename, acc, Undefined)>>
                /\ pc' = "returned"
                /\ UNCHANGED <<cur, svcLog, inflight>>
    /\ UNCHANGED <<hasService, files, results, readLog>>
    /\ UNCHANGED <<serviceVars, runVars, githubVars>>

ReadDone ==
    \E op \in inflight :
        \/ \E content \in FileContents : ReadResolved(op, content)
        \/ \E error \in ReadErrors : ReadRejected(op, error)

ServiceDone ==
    \E op \in inflight :
        \/ \E suggestions \in AiResponses : ServiceResolved(op, suggestions)
        \/ \E error \in ServiceErrors : ServiceRejected(op, error)

\* a batch: one call of analyzeFiles
Next ==
    \/ \E fs \in FileLists : CallAnalyzeFiles(fs)
    \/ ReadDone
    \/ ServiceDone

Spec == Init /\ [][Next]_vars

\* the scanner alone: one direct call of analyzeFile
NextScan ==
    \/ \E filename \in Paths, content \in ScanContents : CallAnalyzeFile(filename, content)
    \/ ServiceDone

SpecScan == Init /\ [][NextScan]_vars

\* either use of the analyser: a batch or a direct call
NextAny == Next \/ NextScan

SpecAny == Init /\ [][NextAny]_vars

(***************************************************************************)
(* The augmentation service (AnthropicService): its parsers.               *)
(***************************************************************************)
\* the characters String.prototype.trim removes, of those the inputs contain
TrimChars == SpaceChars \cup {"\n"}

Max(S) == CHOOSE m \in S : \A o \in S : m >= o

\* s.trim()
Trim(s) ==
    LET kept == {p \in 1..Len(s) : CharAt(s, p) \notin TrimChars}
    IN  IF kept = {} THEN "" ELSE SubSeq(s, Min(kept), Max(kept))

\* /^\d+\./
NumberedMarker == <<LineStart, Plus("d"), Lit(".")>>

\* /^[-*]/
BulletMarker == <<LineStart, Alt({"-", "*"})>>

\* the line starts a new suggestion: the markers are tested on the untrimmed line
IsMarkerUntrimmed(line) ==
    Matches(NumberedMarker, line) \/ Matches(BulletMarker, line)

\* /^\d+\./.test(line.trim()) || /^[-*]/.test(line.trim())
IsMarker(line) ==
    Matches(NumberedMarker, Trim(line)) \/ Matches(BulletMarker, Trim(line))

\* response.split('\n').filter((line) => line.trim())
NonBlankLines(response) == SelectSeq(Split(response), LAMBDA line : Trim(line) # "")

\* if (currentSuggestion) suggestions.push(currentSuggestion.trim())
PushSuggestion(suggestions, currentSuggestion) ==
    IF currentSuggestion # ""
    THEN Append(suggestions, Trim(currentSuggestion))
    ELSE suggestions

\* the loop of parseClaudeSuggestions from its k-th line on, and the push after it
RECURSIVE GroupLines(_, _, _, _)
GroupLines(lines, k, suggestions, currentSuggestion) ==
    IF k > Len(lines)
    THEN PushSuggestion(suggestions, currentSuggestion)
    ELSE IF IsMarker(lines[k])
         THEN GroupLines(lines, k + 1,
                         PushSuggestion(suggestions, currentSuggestion),
                         Trim(lines[k]))
         ELSE IF Trim(lines[k]) # ""
              THEN GroupLines(lines, k + 1, suggestions,
                              currentSuggestion \o " " \o Trim(lines[k]))
              ELSE GroupLines(lines, k + 1, suggestions, currentSuggestion)

\* suggestions.filter((s) => s.length > 10): the length a suggestion must exceed
MinSuggestionLength == 10

\* the filter keeps the suggestions of the threshold's length as well
ParseClaudeSuggestionsKeepTen(response) ==
    SelectSeq(GroupLines(NonBlankLines(response), 1, <<>>, ""),
              LAMBDA sg : Len(sg) >= MinSuggestionLength)

ParseClaudeSuggestions(response) ==
    SelectSeq(GroupLines(NonBlankLines(response), 1, <<>>, ""),
              LAMBDA sg : Len(sg) > MinSuggestionLength)

\* the first position at or after from where lit occurs in s; 0 when there is none
IndexOf(s, lit, from) ==
    LET at == {p \in from..Len(s) : HasAt(s, p, lit)}
    IN  IF at = {} THEN 0 ELSE Min(at)

NoMatch == [matched |-> FALSE, group |-> ""]
Match(group) == [matched |-> TRUE, group |-> group]

CodeMarker == "**MODERNISED CODE:**"
StepsMarker == "**MIGRATION STEPS:**"

\* the fence of three backquotes: a backquote cannot be written in a TLA+
\* string, so the fence is written with tildes, which no modelled response
\* contains otherwise
Fence == "~~~"
FenceOpen == Fence \o "svelte\n"
FenceClose == "\n" \o Fence

\* response.match(/\*\*MODERNISED CODE:\*\*[\s\S]*?<fence>svelte\n([\s\S]*?)\n<fence>/):
\* the lazy quantifiers stop at the first opening fence after the first marker
\* and at the first closing fence after it; a later marker or opening fence
\* matches only if the first one does
ModernisedCodeMatch(response) ==
    LET m == IndexOf(response, CodeMarker, 1)
        o == IF m = 0 THEN 0 ELSE IndexOf(response, FenceOpen, m + Len(CodeMarker))
        c == IF o = 0 THEN 0 ELSE IndexOf(response, FenceClose, o + Len(FenceOpen))
    IN  IF c = 0
        THEN NoMatch
        ELSE Match(SubSeq(response, o + Len(FenceOpen), c - 1))

\* response.match(/\*\*MIGRATION STEPS:\*\*\n([\s\S]*)/)
MigrationStepsMatch(response) ==
    LET m == IndexOf(response, StepsMarker \o "\n", 1)
    IN  IF m = 0
        THEN NoMatch
        ELSE Match(SubSeq(response, m + Len(StepsMarker) + 1, Len(response)))

\* migration_steps_text.split('\n').filter(numbered).map(trim)
MigrationSteps(text) ==
    LET kept == SelectSeq(Split(text), LAMBDA line : Matches(NumberedMarker, Trim(line)))
    IN  [k \in 1..Len(kept) |-> Trim(kept[k])]

\* a section is read only when both sections are found
ParseModernisationResponseAllOrNothing(response) ==
    LET code == ModernisedCodeMatch(response)
        steps == MigrationStepsMatch(response)
        both == code.matched /\ steps.matched
    IN  [modernised_code |-> IF both THEN Trim(code.group) ELSE "",
         migration_steps |-> MigrationSteps(IF both THEN steps.group ELSE "")]

ParseModernisationResponse(response) ==
    LET code == ModernisedCodeMatch(response)
        steps == MigrationStepsMatch(response)
    IN  [modernised_code |-> IF code.matched THEN Trim(code.group) ELSE "",
         migration_steps |-> MigrationSteps(IF steps.matched THEN steps.group ELSE "")]

(***************************************************************************)
(* The augmentation service: the answers of the API and the two methods.   *)
(***************************************************************************)
MaxResponseLines == 3

\* the lines the answers to analyzeSvelteFile are made of
SuggestionLines ==
    {"",
     "1. Use $props()",
     "- short",
     "  * Replace on:click with onclick",
     "with more detail ",
     "2. abcdefg"}

RECURSIVE JoinedFrom(_, _)
JoinedFrom(pool, n) ==
    IF n = 1
    THEN pool
    ELSE {c \o "\n" \o l : c \in JoinedFrom(pool, n - 1), l \in pool}

SuggestionResponses == UNION {JoinedFrom(SuggestionLines, n) : n \in 1..MaxResponseLines}

\* the parts the answers to getSvelteComponentSuggestions are made of
Preambles == {"", "Here is the component:\n\n"}

CodeBodies == {"<script>\n  let { name } = $props();\n</script>", "  1. <p>one</p>  "}
FencedCode(body) == CodeMarker \o "\n" \o FenceOpen \o body \o FenceClose \o "\n\n"
CodeSections ==
    {""} \cup {FencedCode(body) : body \in CodeBodies}
         \cup {CodeMarker \o "\nlet count = $state(0);\n\n"}

StepLists == {<<"1. Replace export let with $props()", "  2. Use $state()">>}
StepsSection(list) ==
    StepsMarker \o "\n" \o list[1] \o "\n" \o "then\n" \o list[2] \o "\n"
StepsSections ==
    {""} \cup {StepsSection(list) : list \in StepLists}
         \cup {StepsMarker \o "\nNothing to do\n", StepsMarker \o " 1. inline step"}

ModernisationResponses ==
    {pre \o code \o steps : pre \in Preambles, code \in CodeSections, steps \in StepsSections}

\* response.content of a resolved client.messages.create
TextContent(text) == <<[type |-> "text", text |-> text]>>
ApiContents(texts) ==
    {<<>>, <<[type |-> "tool_use", text |-> "1. Not a block of text"]>>}
        \cup {TextContent(text) : text \in texts}

ApiErrors == {"Error: API Error"}

\* firstContent?.type === 'text' && 'text' in firstContent ? firstContent.text : ''
ResponseText(content) ==
    IF content # <<>> /\ content[1].type = "text" THEN content[1].text ELSE ""

\* service.analyzeSvelteFile(...) or service.getSvelteComponentSuggestions(...):
\* the arguments only make the prompt
CallService(method) ==
    /\ apc = "idle"
    /\ apc' = "awaiting"
    /\ areq' = <<[method |-> method, resolved |-> FALSE, responseText |-> ""]>>
    /\ UNCHANGED <<aret, hasService, pc, files, results, cur, call, ret,
                   inflight, readLog, svcLog, runVars, githubVars>>

\* client.messages.create resolves: the method parses the text and returns
ApiResolved(content) ==
    /\ apc = "awaiting"
    /\ apc' = "returned"
    /\ areq' = <<[areq[1] EXCEPT !.resolved = TRUE,
                                  !.responseText = ResponseText(content)]>>
    /\ aret' = IF areq[1].method = "analyzeSvelteFile"
               THEN <<ParseClaudeSuggestions(ResponseText(content))>>
               ELSE <<ParseModernisationResponse(ResponseText(content))>>
    /\ UNCHANGED <<hasService, pc, files, results, cur, call, ret,
                   inflight, readLog, svcLog, runVars, githubVars>>

\* client.messages.create rejects: the method throws a new Error
ApiRejected(error) ==
    /\ apc = "awaiting"
    /\ apc' = "threw"
    /\ aret' = IF areq[1].method = "analyzeSvelteFile"
               THEN <<"Failed to analyse with Claude: " \o error>>
               ELSE <<"Failed to get component suggestions: " \o error>>
    /\ UNCHANGED <<areq, hasService, pc, files, results, cur, call, ret,
                   inflight, readLog, svcLog, runVars, githubVars>>

ApiDone ==
    \/ /\ apc = "awaiting" /\ areq[1].method = "analyzeSvelteFile"
       /\ \E content \in ApiContents(SuggestionResponses) : ApiResolved(content)
    \/ /\ apc = "awaiting" /\ areq[1].method = "getSvelteComponentSuggestions"
       /\ \E content \in ApiContents(ModernisationResponses) : ApiResolved(content)
    \/ \E error \in ApiErrors : ApiRejected(error)

\* one call of a method of the service
NextService ==
    \/ \E method \in {"analyzeSvelteFile", "getSvelteComponentSuggestions"} :
           CallService(method)
    \/ ApiDone

SpecService == Init /\ [][NextService]_vars

(***************************************************************************)
(* generateSummary.  The summary is kept as the sequence of the pieces the *)
(* function appends (one per +=), so that the sections can be told apart;  *)
(* the pictographs and the backquotes of the literals cannot be written in *)
(* a TLA+ string and are left out of the pieces.                           *)
(***************************************************************************)
SummaryHeader == "# Svelte Migration Analysis Results\n\n"

NoIssuesText ==
    <<"**Great news!** No Svelte 4 patterns detected in your codebase.\n\n",
      "Your project appears to be ready for Svelte 5!\n">>

SummaryBlock(rs, totalIssues, totalWarnings) ==
    <<"## Summary\n\n",
      "- **Files analyzed:** " \o ToString(Len(rs)) \o "\n",
      "- **Issues found:** " \o ToString(totalIssues) \o "\n",
      "- **Warnings found:** " \o ToString(totalWarnings) \o "\n\n">>

\* if (issue.suggestion)
HasSuggestion(finding) ==
    "suggestion" \in DOMAIN finding /\ finding.suggestion # ""

FindingLines(finding) ==
    <<"- **Line " \o ToString(finding.line) \o ":** " \o finding.message \o "\n">>
        \o (IF HasSuggestion(finding)
            THEN <<"  - **Suggestion:** " \o finding.suggestion \o "\n">>
            ELSE <<>>)

\* for (const issue of result.issues), from the k-th on
RECURSIVE AllFindingLines(_, _)
AllFindingLines(findings, k) ==
    IF k > Len(findings)
    THEN <<>>
    ELSE FindingLines(findings[k]) \o AllFindingLines(findings, k + 1)

\* the plural whatever the count
CountWordPlural(count, word) == word \o "s"

\* issueCount === 1 ? "issue" : "issues"
CountWord(count, word) == IF count = 1 THEN word ELSE word \o "s"

FileLabel(file, count, word) ==
    "<summary><code>" \o file \o "</code> - " \o ToString(count) \o " "
        \o CountWord(count, word) \o "</summary>\n\n"

FileSection(file, findings, word) ==
    <<"<details>\n", FileLabel(file, Len(findings), word)>>
        \o AllFindingLines(findings, 1)
        \o <<"\n</details>\n\n">>

FindingsOf(result, word) == IF word = "issue" THEN result.issues ELSE result.warnings

\* a section for every result, with findings or without
RECURSIVE FileSectionsAll(_, _, _)
FileSectionsAll(rs, k, word) ==
    IF k > Len(rs)
    THEN <<>>
    ELSE FileSection(rs[k].file, FindingsOf(rs[k], word), word)
             \o FileSectionsAll(rs, k + 1, word)

\* for (const result of results) if (result.issues.length > 0) ..., from the k-th on
RECURSIVE FileSections(_, _, _)
FileSections(rs, k, word) ==
    IF k > Len(rs)
    THEN <<>>
    ELSE (IF Len(FindingsOf(rs[k], word)) > 0
          THEN FileSection(rs[k].file, FindingsOf(rs[k], word), word)
          ELSE <<>>)
             \o FileSections(rs, k + 1, word)

IssuesSection(rs, totalIssues) ==
    IF totalIssues > 0
    THEN <<"## Issues (" \o ToString(totalIssues) \o ")\n\n",
           "These are breaking changes that must be addressed for Svelte 5:\n\n">>
             \o FileSections(rs, 1, "issue")
    ELSE <<>>

WarningsSection(rs, totalWarnings) ==
    IF totalWarnings > 0
    THEN <<"## Warnings (" \o ToString(totalWarnings) \o ")\n\n",
           "These patterns will still work but are deprecated in Svelte 5:\n\n">>
             \o FileSections(rs, 1, "warning")
    ELSE <<>>

MigrationResources ==
    <<"## Migration Resources\n\n",
      "- [Svelte 5 Migration Guide](https://svelte.dev/docs/svelte/v5-migration-guide)\n",
      "- [Automatic Migration Tool](https://svelte.dev/docs/svelte/v5-migration-guide#migration-script): npx sv migrate svelte-5\n",
      "- [Svelte 5 Documentation](https://svelte.dev/docs/svelte)\n\n">>

FullReport(rs, totalIssues, totalWarnings) ==
    SummaryBlock(rs, totalIssues, totalWarnings)
        \o IssuesSection(rs, totalIssues)
        \o WarningsSection(rs, totalWarnings)
        \o MigrationResources

\* the no-issues branch without its return
GenerateSummaryNoReturn(rs, totalIssues, totalWarnings) ==
    <<SummaryHeader>>
        \o (IF totalIssues = 0 /\ totalWarnings = 0 THEN NoIssuesText ELSE <<>>)
        \o FullReport(rs, totalIssues, totalWarnings)

GenerateSummary(rs, totalIssues, totalWarnings) ==
    IF totalIssues = 0 /\ totalWarnings = 0
    THEN <<SummaryHeader>> \o NoIssuesText
    ELSE <<SummaryHeader>> \o FullReport(rs, totalIssues, totalWarnings)

(***************************************************************************)
(* The platform service (GitHubService): its operations, up to their first *)
(* request.  A pull-request number of 0 stands for an absent number.       *)
(***************************************************************************)
\* a request to the platform API, before its answer
Request(api, arg) ==
    [outcome |-> "pending", api |-> api, arg |-> arg, data |-> <<>>, held |-> 0]

\* the last request of the log answered
Answered(outcome, data) ==
    [ghLog EXCEPT ![Len(ghLog)].outcome = outcome, ![Len(ghLog)].data = data,
                  ![Len(ghLog)].held = Len(prComments)]

\* the arguments and local variables of an operation
GitHubCall(op, caller) ==
    [op |-> op, caller |-> caller, summary |-> <<>>, issues |-> 0, warnings |-> 0,
     items |-> <<>>, chunks |-> <<>>, next |-> 0]

\* this.context.eventName !== 'pull_request', or !pullNumber
NoPullRequest(ctx) == ctx.eventName # "pull_request" \/ ctx.pullNumber = 0

\* files.filter(added or modified).filter(.svelte).map(filename)
ChangedSvelte(data) ==
    LET kept == SelectSeq(data, LAMBDA file :
                    /\ file.status \in {"added", "modified"}
                    /\ HasAt(file.filename, Len(file.filename) - Len(".svelte") + 1, ".svelte"))
    IN  [k \in 1..Len(kept) |-> kept[k].filename]

\* the listing goes through without a catch
ChangedFilesNoCatch(error) == [caught |-> FALSE, files |-> <<>>]

\* getChangedSvelteFiles: catch (error) { core.warning(...); return [] }
ChangedFilesCatch(error) == [caught |-> TRUE, files |-> <<>>]

\* gitHub.getChangedSvelteFiles() runs up to its await or return
GetChangedSvelteFilesCalled(ctx, caller) ==
    /\ gcall' = <<GitHubCall("getChangedSvelteFiles", caller)>>
    /\ IF NoPullRequest(ctx)
       THEN /\ gpc' = "returned"
            /\ gret' = <<>>
            /\ UNCHANGED ghLog
       ELSE /\ gpc' = "listingFiles"
            /\ ghLog' = Append(ghLog, Request("pulls.listFiles",
                                              [pull_number |-> ctx.pullNumber, per_page |-> 100]))
            /\ UNCHANGED gret

CommentMarker == "<!-- svelte-migration-analysis -->"

\* the summary alone
CommentBodyNoMarker(summary) == summary

\* the template of the body: marker, newline, summary (the summary is a
\* sequence of pieces, and so is the body)
CommentBody(summary) == <<CommentMarker \o "\n">> \o summary

\* comments.find(...): the place of the first listed comment with the marker, or 0
FindMarkerComment(listed) ==
    LET with == {k \in 1..Len(listed) :
                    \E n \in 1..Len(listed[k].body) :
                        IndexOf(listed[k].body[n], CommentMarker, 1) # 0}
    IN  IF with = {} THEN 0 ELSE Min(with)

\* a new comment whether or not one with the marker is listed
CommentWriteAlwaysCreate(listed, summary) ==
    Request("issues.createComment", [comment_id |-> 0, body |-> CommentBody(summary)])

\* if (existingComment) updateComment(...) else createComment(...)
CommentWrite(listed, summary) ==
    IF FindMarkerComment(listed) # 0
    THEN Request("issues.updateComment",
                 [comment_id |-> listed[FindMarkerComment(listed)].id,
                  body |-> CommentBody(summary)])
    ELSE Request("issues.createComment", [comment_id |-> 0, body |-> CommentBody(summary)])

\* the comment operation without a catch
CommentNoCatch(error) == [caught |-> FALSE]

\* createOrUpdateComment: catch (error) { core.warning(...) }
CommentCatch(error) == [caught |-> TRUE]

\* gitHub.createOrUpdateComment(summary) runs up to its await or return
CreateOrUpdateCommentCalled(ctx, summary, caller) ==
    /\ gcall' = <<[GitHubCall("createOrUpdateComment", caller) EXCEPT !.summary = summary]>>
    /\ IF NoPullRequest(ctx)
       THEN /\ gpc' = "returned"
            /\ UNCHANGED ghLog
       ELSE /\ gpc' = "listingComments"
            /\ ghLog' = Append(ghLog, Request("issues.listComments",
                                              [issue_number |-> ctx.pullNumber]))
    /\ UNCHANGED gret

\* the warnings looked at before the issues
ConclusionWarningsFirst(issues, warnings) ==
    IF warnings > 0 THEN "neutral" ELSE IF issues > 0 THEN "failure" ELSE "success"

\* issues > 0 ? 'failure' : warnings > 0 ? 'neutral' : 'success'
Conclusion(issues, warnings) ==
    IF issues > 0 THEN "failure" ELSE IF warnings > 0 THEN "neutral" ELSE "success"

\* gitHub.createCheckRun(name, summary, issues, warnings) runs up to its await
CreateCheckRunCalled(name, summary, issues, warnings, caller) ==
    /\ gcall' = <<[GitHubCall("createCheckRun", caller) EXCEPT
                       !.summary = summary, !.issues = issues, !.warnings = warnings]>>
    /\ gpc' = "creatingCheck"
    /\ ghLog' = Append(ghLog, Request("checks.create",
                                      [name |-> name,
                                       conclusion |-> Conclusion(issues, warnings),
                                       title |->
                                           IF issues > 0
                                           THEN "Found " \o ToString(issues) \o " migration issues"
                                           ELSE IF warnings > 0
                                                THEN "Found " \o ToString(warnings)
                                                         \o " migration warnings"
                                                ELSE "No migration issues found",
                                       summary |-> summary,
                                       annotations |-> <<>>]))
    /\ UNCHANGED gret

\* GitHub API limits annotations to 50 per request
ChunkSize == 50

\* the element after every chunk is skipped
RECURSIVE ChunkArraySkipping(_, _)
ChunkArraySkipping(array, size) ==
    IF Len(array) = 0
    THEN <<>>
    ELSE <<SubSeq(array, 1, Min({size, Len(array)}))>>
             \o ChunkArraySkipping(SubSeq(array, size + 2, Len(array)), size)

\* for (let i = 0; i < array.length; i += size) chunks.push(array.slice(i, i + size)):
\* the first slice, then the slices of the rest
RECURSIVE ChunkArray(_, _)
ChunkArray(array, size) ==
    IF Len(array) = 0
    THEN <<>>
    ELSE <<SubSeq(array, 1, Min({size, Len(array)}))>>
             \o ChunkArray(SubSeq(array, size + 1, Len(array)), size)

\* the checks.create request of one chunk
AnnotationsRequest(items, chunk) ==
    Request("checks.create",
            [name |-> "Svelte Migration Analysis",
             conclusion |-> IF \E k \in 1..Len(items) : items[k].severity = "error"
                            THEN "failure" ELSE "neutral",
             title |-> "Svelte Migration Analysis",
             summary |-> "Found " \o ToString(Len(items)) \o " migration issues",
             \* chunk.map(issue => ({ path, start_line, end_line, annotation_level, message }))
             annotations |->
                 [k \in 1..Len(chunk) |->
                     [message |-> chunk[k].message,
                      path |-> chunk[k].file,
                      start_line |-> chunk[k].line,
                      end_line |-> chunk[k].line,
                      annotation_level |->
                          IF chunk[k].severity = "error" THEN "failure" ELSE "warning"]]])

\* gitHub.createAnnotations(items) runs up to its first await or its end
CreateAnnotationsCalled(items, caller) ==
    LET chunks == ChunkArray(items, ChunkSize)
    IN  /\ gcall' = <<[GitHubCall("createAnnotations", caller) EXCEPT
                           !.items = items, !.chunks = chunks,
                           !.next = IF chunks = <<>> THEN 0 ELSE 1]>>
        /\ IF chunks = <<>>
           THEN /\ gpc' = "returned"
                /\ UNCHANGED ghLog
           ELSE /\ gpc' = "annotating"
                /\ ghLog' = Append(ghLog, AnnotationsRequest(items, chunks[1]))
        /\ UNCHANGED gret

(***************************************************************************)
(* The platform service: the answers to its requests.                      *)
(***************************************************************************)
analyserVars == <<hasService, pc, files, results, cur, call, ret, inflight,
                  readLog, svcLog>>

\* pulls.listFiles resolves with data
ListFilesResolved(data) ==
    /\ gpc = "listingFiles"
    /\ ghLog' = Answered("ok", data)
    /\ gret' = ChangedSvelte(data)
    /\ gpc' = "returned"
    /\ UNCHANGED <<gcall, prComments, analyserVars, serviceVars, runVars>>

\* issues.listComments resolves with the listed comments: the write is requested
ListCommentsResolved(listed) ==
    /\ gpc = "listingComments"
    /\ ghLog' = Append(Answered("ok", listed), CommentWrite(listed, gcall[1].summary))
    /\ gpc' = "writingComment"
    /\ UNCHANGED <<gcall, gret, prComments, analyserVars, serviceVars, runVars>>

NextCommentId == Max({0} \cup {prComments[k].id : k \in 1..Len(prComments)}) + 1

\* the comments of the pull request after the write w
Written(w) ==
    IF w.api = "issues.updateComment"
    THEN [k \in 1..Len(prComments) |->
             IF prComments[k].id = w.arg.comment_id
             THEN [prComments[k] EXCEPT !.body = w.arg.body]
             ELSE prComments[k]]
    ELSE Append(prComments, [id |-> NextCommentId, body |-> w.arg.body])

\* issues.updateComment or issues.createComment resolves
CommentWritten ==
    /\ gpc = "writingComment"
    /\ prComments' = Written(ghLog[Len(ghLog)])
    /\ ghLog' = Answered("ok", <<>>)
    /\ gpc' = "returned"
    /\ UNCHANGED <<gcall, gret, analyserVars, serviceVars, runVars>>

\* checks.create of createCheckRun resolves
CheckRunCreated ==
    /\ gpc = "creatingCheck"
    /\ ghLog' = Answered("ok", <<>>)
    /\ gpc' = "returned"
    /\ UNCHANGED <<gcall, gret, prComments, analyserVars, serviceVars, runVars>>

\* checks.create of a chunk resolves: the next chunk is sent, or the loop ends
AnnotationsSent ==
    /\ gpc = "annotating"
    /\ LET c == gcall[1]
       IN  IF c.next < Len(c.chunks)
           THEN /\ ghLog' = Append(Answered("ok", <<>>),
                                   AnnotationsRequest(c.items, c.chunks[c.next + 1]))
                /\ gcall' = <<[c EXCEPT !.next = c.next + 1]>>
                /\ UNCHANGED gpc
           ELSE /\ ghLog' = Answered("ok", <<>>)
                /\ gpc' = "returned"
                /\ UNCHANGED gcall
    /\ UNCHANGED <<gret, prComments, analyserVars, serviceVars, runVars>>

\* the pending request rejects
GitHubRejected(error) ==
    /\ gpc \in {"listingFiles", "listingComments", "writingComment", "creatingCheck",
                "annotating"}
    /\ ghLog' = Answered("failed", <<error>>)
    /\ LET caught ==
               CASE gcall[1].op = "getChangedSvelteFiles" -> ChangedFilesCatch(error).caught
                 [] gcall[1].op = "createOrUpdateComment" -> CommentCatch(error).caught
                 \* createCheckRun, createAnnotations: catch (error) { core.warning(...) }
                 [] OTHER -> TRUE
       IN  gpc' = IF caught THEN "returned" ELSE "threw"
    /\ gret' = IF gcall[1].op = "getChangedSvelteFiles"
               THEN ChangedFilesCatch(error).files
               ELSE gret
    /\ UNCHANGED <<gcall, prComments, analyserVars, serviceVars, runVars>>

(***************************************************************************)
(* The action's run.                                                       *)
(***************************************************************************)
\* the inputs and the event of a run
Configs ==
    [filterChangedFiles : BOOLEAN, failOnError : BOOLEAN, failOnWarning : BOOLEAN,
     anthropicApiKey : {"", "sk-ant-key"}, enableAiAnalysis : BOOLEAN,
     eventName : {"push", "pull_request"}, pullNumber : {0, 123}]
        \ {cfg \in [filterChangedFiles : BOOLEAN, failOnError : BOOLEAN,
                     failOnWarning : BOOLEAN, anthropicApiKey : {"", "sk-ant-key"},
                     enableAiAnalysis : BOOLEAN, eventName : {"push"},
                     pullNumber : {123}] : TRUE}

\* the lists findSvelteFiles resolves with: [...new Set(allFiles)] holds no
\* path twice
RunFileLists ==
    {fs \in UNION {SeqsOfLen(Paths, n) : n \in 0..Cardinality(Paths)} :
        \A i, j \in 1..Len(fs) : fs[i] = fs[j] => i = j}

\* the pages pulls.listFiles resolves with
ChangedListings ==
    {<<>>,
     <<[filename |-> "a.svelte", status |-> "modified"]>>,
     <<[filename |-> "b.svelte", status |-> "removed"]>>,
     <<[filename |-> "src/app.ts", status |-> "modified"],
       [filename |-> "b.svelte", status |-> "added"]>>,
     <<[filename |-> "b.svelte", status |-> "modified"],
       [filename |-> "a.svelte", status |-> "added"]>>,
     <<[filename |-> "a.svelte", status |-> "renamed"],
       [filename |-> "b.svelte", status |-> "modified"]>>}

\* the rejection reasons of glob
DiscoveryErrors == {"Error: EACCES: permission denied"}

\* enableAiAnalysis && anthropicApiKey ? new AnthropicService(anthropicApiKey) : undefined
AnthropicConfigured(cfg) == cfg.enableAiAnalysis /\ cfg.anthropicApiKey # ""

\* filterChangedFiles && github.context.eventName === "pull_request"
UsesChangedFiles(cfg) == cfg.filterChangedFiles /\ cfg.eventName = "pull_request"

\* results.reduce((sum, result) => sum + result.issues.length, 0), from the k-th on
RECURSIVE Total(_, _, _)
Total(rs, k, word) ==
    IF k > Len(rs) THEN 0 ELSE Len(FindingsOf(rs[k], word)) + Total(rs, k + 1, word)

\* the files with issues counted instead of the issues
TotalIssuesFiles(rs) == Len(SelectSeq(rs, LAMBDA r : Len(r.issues) > 0))

TotalIssues(rs) == Total(rs, 1, "issue")

TotalWarnings(rs) == Total(rs, 1, "warning")

\* the outputs when no file was found
NoFilesOutputs ==
    [filesAnalyzed |-> 0, issuesFound |-> 0, warningsFound |-> 0,
     hasIssues |-> FALSE, summary |-> <<"No Svelte files found to analyze">>]

\* the files that could be read counted instead of the paths
SetOutputsReadable(filesToAnalyze, rs) ==
    [filesAnalyzed |->
         Len(SelectSeq(rs, LAMBDA r : \A k \in 1..Len(r.issues) : r.issues[k].rule # "file-read-error")),
     issuesFound |-> TotalIssues(rs),
     warningsFound |-> TotalWarnings(rs),
     hasIssues |-> TotalIssues(rs) > 0 \/ TotalWarnings(rs) > 0,
     summary |-> GenerateSummary(rs, TotalIssues(rs), TotalWarnings(rs))]

\* the five core.setOutput calls after the analysis
SetOutputs(filesToAnalyze, rs) ==
    [filesAnalyzed |-> Len(filesToAnalyze),
     issuesFound |-> TotalIssues(rs),
     warningsFound |-> TotalWarnings(rs),
     hasIssues |-> TotalIssues(rs) > 0 \/ TotalWarnings(rs) > 0,
     summary |-> GenerateSummary(rs, TotalIssues(rs), TotalWarnings(rs))]

\* fail-on-error counting the warnings as well
FailIfRequestedAnyFinding(cfg, totalIssues, totalWarnings) ==
    (IF cfg.failOnError /\ totalIssues + totalWarnings > 0
     THEN <<"Migration analysis failed: " \o ToString(totalIssues) \o " issues found">>
     ELSE <<>>)
        \o (IF cfg.failOnWarning /\ totalWarnings > 0
            THEN <<"Migration analysis failed: " \o ToString(totalWarnings) \o " warnings found">>
            ELSE <<>>)

\* the core.setFailed calls at the end of the run
FailIfRequested(cfg, totalIssues, totalWarnings) ==
    (IF cfg.failOnError /\ totalIssues > 0
     THEN <<"Migration analysis failed: " \o ToString(totalIssues) \o " issues found">>
     ELSE <<>>)
        \o (IF cfg.failOnWarning /\ totalWarnings > 0
            THEN <<"Migration analysis failed: " \o ToString(totalWarnings) \o " warnings found">>
            ELSE <<>>)

\* the comment made on every pull request
ShouldCommentAlways(cfg, out) == cfg.eventName = "pull_request"

\* github.context.eventName === "pull_request" && (totalIssues > 0 || totalWarnings > 0)
ShouldComment(cfg, out) == cfg.eventName = "pull_request" /\ out.hasIssues

\* run reads its inputs, makes the services and starts to look for files
RunStart(cfg) ==
    /\ rpc = "init"
    /\ pc = "idle"
    /\ config = NoConfig
    /\ config' = cfg
    /\ hasService' = AnthropicConfigured(cfg)
    /\ rpc' = "discovering"
    /\ IF UsesChangedFiles(cfg)
       THEN GetChangedSvelteFilesCalled(cfg, "run")
       ELSE UNCHANGED <<gpc, gcall, gret, ghLog>>
    /\ prComments' \in IF cfg.pullNumber = 0
                       THEN {<<>>}
                       ELSE {<<>>, <<[id |-> 1, body |-> CommentBody(<<"## Earlier analysis">>)]>>}
    /\ UNCHANGED <<pc, files, results, cur, call, ret, inflight, readLog, svcLog,
                   serviceVars, outputs, failed, comments>>

\* the catch of run: core.setFailed
RunCatch(error) ==
    /\ failed' = Append(failed, "Action failed with error: " \o error)
    /\ rpc' = "done"

\* the file list resolves: without files the run ends, else analyzeFiles is called
RunFilesFound(fs) ==
    /\ rpc = "discovering"
    /\ UsesChangedFiles(config) => gpc \in {"returned", "threw"} /\ fs = gret
    /\ IF UsesChangedFiles(config) /\ gpc = "threw"
       THEN /\ RunCatch(ghLog[Len(ghLog)].data[1])
            /\ UNCHANGED <<hasService, pc, files, results, cur, call, ret, inflight,
                           readLog, svcLog, serviceVars, outputs>>
       ELSE /\ IF Len(fs) = 0
               THEN /\ outputs' = <<NoFilesOutputs>>
                    /\ rpc' = "done"
                    /\ UNCHANGED <<hasService, pc, files, results, cur, call, ret,
                                   inflight, readLog, svcLog, serviceVars>>
               ELSE /\ AnalyzeFilesCalled(fs)
                    /\ rpc' = "analysing"
                    /\ UNCHANGED outputs
            /\ UNCHANGED failed
    /\ UNCHANGED <<config, comments, githubVars>>

\* findSvelteFiles rejects (the changed-files listing catches its own errors)
RunDiscoveryFailed(error) ==
    /\ rpc = "discovering"
    /\ ~UsesChangedFiles(config)
    /\ RunCatch(error)
    /\ UNCHANGED <<hasService, pc, files, results, cur, call, ret, inflight,
                   readLog, svcLog, serviceVars, config, outputs, comments, githubVars>>

\* analyzeFiles resolves: outputs, summary, then the comment or the end of the run
RunAnalysed ==
    /\ rpc = "analysing"
    /\ pc \in {"returned", "raised"}
    /\ IF pc = "raised"
       THEN /\ RunCatch("Error")
            /\ UNCHANGED <<outputs, comments, githubVars>>
       ELSE LET out == SetOutputs(files, results)
            IN  /\ outputs' = <<out>>
                /\ IF ShouldComment(config, out)
                   THEN /\ comments' = Append(comments, out.summary)
                        /\ CreateOrUpdateCommentCalled(config, out.summary, "run")
                        /\ rpc' = "commenting"
                        /\ UNCHANGED <<failed, prComments>>
                   ELSE /\ failed' = FailIfRequested(config, out.issuesFound, out.warningsFound)
                        /\ rpc' = "done"
                        /\ UNCHANGED <<comments, githubVars>>
    /\ UNCHANGED <<hasService, pc, files, results, cur, call, ret, inflight,
                   readLog, svcLog, serviceVars, config>>

\* createOrUpdateComment resolves (it catches its own errors)
RunCommented ==
    /\ rpc = "commenting"
    /\ gpc \in {"returned", "threw"}
    /\ IF gpc = "threw"
       THEN RunCatch(ghLog[Len(ghLog)].data[1])
       ELSE /\ failed' = FailIfRequested(config, outputs[1].issuesFound,
                                         outputs[1].warningsFound)
            /\ rpc' = "done"
    /\ UNCHANGED <<hasService, pc, files, results, cur, call, ret, inflight,
                   readLog, svcLog, serviceVars, config, outputs, comments, githubVars>>

\* the answers of the platform to the request in flight
GitHubDone ==
    \/ \E data \in ChangedListings : ListFilesResolved(data)
    \* listComments asks for one page: the first comments, not always all
    \/ \E n \in 0..Len(prComments) : ListCommentsResolved(SubSeq(prComments, 1, n))
    \/ CommentWritten
    \/ GitHubRejected("HttpError: Resource not accessible by integration")

\* one run of the action
NextRun ==
    \/ \E cfg \in Configs : RunStart(cfg)
    \/ \E fs \in RunFileLists : RunFilesFound(fs)
    \/ \E error \in DiscoveryErrors : RunDiscoveryFailed(error)
    \/ ReadDone
    \/ ServiceDone
    \/ RunAnalysed
    \/ RunCommented
    \/ GitHubDone

SpecRun == Init /\ [][NextRun]_vars

(***************************************************************************)
(* The platform service called directly, as its tests call it.             *)
(***************************************************************************)
MaxCommentCalls == 2
MaxComments == 2
MaxAnnotations == 101

\* n findings to annotate, told apart by their line; the first an error or not
AnnotationItems(n, firstIsError) ==
    [k \in 1..n |->
        [rule |-> "on-directive", message |-> "finding",
         severity |-> IF firstIsError /\ k = 1 THEN "error" ELSE "warning",
         line |-> k, file |-> "src/App.svelte", column |-> 1]]

\* new GitHubService(token, context)
NewGitHubService(ctx) ==
    /\ rpc = "init"
    /\ config = NoConfig
    /\ config' = [NoConfig EXCEPT !.eventName = ctx.eventName,
                                  !.pullNumber = ctx.pullNumber]
    /\ UNCHANGED <<analyserVars, serviceVars, rpc, outputs, failed, comments, githubVars>>

\* the service exists, no run uses it and no call of it is in progress
Callable == rpc = "init" /\ config # NoConfig /\ gpc \in {"idle", "returned"}

CallGetChangedSvelteFiles ==
    /\ Callable
    /\ gcall = <<>>
    /\ prComments = <<>>
    /\ GetChangedSvelteFilesCalled(config, "test")
    /\ UNCHANGED <<prComments, analyserVars, serviceVars, runVars>>

\* one call after the other: the call before has completed
CallCreateOrUpdateComment(summary) ==
    /\ Callable
    /\ \A k \in 1..Len(gcall) : gcall[k].op = "createOrUpdateComment"
    /\ Len(SelectSeq(ghLog, LAMBDA r : r.api = "issues.listComments")) < MaxCommentCalls
    /\ CreateOrUpdateCommentCalled(config, summary, "test")
    /\ UNCHANGED <<prComments, analyserVars, serviceVars, runVars>>

CallCreateCheckRun(issues, warnings) ==
    /\ Callable
    /\ gcall = <<>>
    /\ prComments = <<>>
    /\ CreateCheckRunCalled("Svelte Migration", <<"Test summary">>, issues, warnings, "test")
    /\ UNCHANGED <<prComments, analyserVars, serviceVars, runVars>>

CallCreateAnnotations(items) ==
    /\ Callable
    /\ gcall = <<>>
    /\ prComments = <<>>
    /\ CreateAnnotationsCalled(items, "test")
    /\ UNCHANGED <<prComments, analyserVars, serviceVars, runVars>>

\* somebody else comments on the pull request, between the calls
OtherUserComments ==
    /\ Callable
    /\ config.pullNumber # 0
    /\ \A k \in 1..Len(gcall) : gcall[k].op = "createOrUpdateComment"
    /\ Len(prComments) < MaxComments
    /\ prComments' = Append(prComments, [id |-> NextCommentId, body |-> <<"LGTM">>])
    /\ UNCHANGED <<gpc, gcall, gret, ghLog, analyserVars, serviceVars, runVars>>

NextGitHub ==
    \/ \E ctx \in {[eventName |-> "push", pullNumber |-> 0],
                   [eventName |-> "pull_request", pullNumber |-> 0],
                   [eventName |-> "pull_request", pullNumber |-> 123]} :
           NewGitHubService(ctx)
    \/ CallGetChangedSvelteFiles
    \/ \E summary \in {<<"Test summary">>, <<"## Report", "1 issue">>} :
           CallCreateOrUpdateComment(summary)
    \/ \E issues, warnings \in 0..2 : CallCreateCheckRun(issues, warnings)
    \/ \E n \in 0..MaxAnnotations, firstIsError \in BOOLEAN :
           CallCreateAnnotations(AnnotationItems(n, firstIsError))
    \/ OtherUserComments
    \/ GitHubDone
    \/ CheckRunCreated
    \/ AnnotationsSent

SpecGitHub == Init /\ [][NextGitHub]_vars

SpecPlatform == Init /\ [][NextRun \/ NextGitHub]_vars

(***************************************************************************)
(* Properties of analyzeFiles (checked under Spec).                        *)
(***************************************************************************)
FailedReads == {k \in 1..Len(readLog) : ~readLog[k].ok}
GoodReads == {k \in 1..Len(readLog) : readLog[k].ok}
CallsFor(k) == {j \in 1..Len(svcLog) : svcLog[j].idx = k}
NumFindings(r) == Len(r.issues) + Len(r.warnings)

\* C1: the results of analyzeFiles are, at every moment, the results of a
\* prefix of the input list in input order, and when the call has returned
\* there is exactly one result per input path, the i-th for the i-th path
C1_OneResultPerPathInOrder ==
    /\ Len(results) <= Len(files)
    /\ \A k \in 1..Len(results) : results[k].file = files[k]
    /\ pc = "returned" => Len(results) = Len(files)

C1_Witness ==
    /\ pc = "returned"
    /\ Len(files) >= 3
    /\ files[1] # files[2]
    /\ FailedReads # {}
    /\ GoodReads # {}

\* what analyzeFile(filename, content) can return when called on its own
SoloResults(filename, content) ==
    {FileResult(filename, FileScan[content], Undefined)}
        \cup {FileResult(filename, FileScan[content], Defined(s)) :
                s \in {a \in AiResponses :
                         hasService /\ NumFindings(FileScan[content]) > 0}}

\* C2: batch isolation: when exactly one read of the batch failed, there are
\* as many results as paths, the failing path's result has exactly one error
\* finding, of rule file-read-error, and no warnings, and every other result
\* is one that analyzeFile returns for that path and content on its own
C2_BatchIsolation ==
    (pc = "returned" /\ Cardinality(FailedReads) = 1) =>
        /\ Len(results) = Len(files)
        /\ \A k \in FailedReads :
              /\ Len(results[k].issues) = 1
              /\ results[k].issues[1].rule = "file-read-error"
              /\ results[k].issues[1].severity = "error"
              /\ results[k].warnings = <<>>
        /\ \A k \in GoodReads :
              results[k] \in SoloResults(files[k], readLog[k].content)

C2_Witness ==
    /\ pc = "returned"
    /\ Len(files) >= 3
    /\ FailedReads = {2}
    /\ NumFindings(results[1]) > 0
    /\ NumFindings(results[3]) > 0

\* C3: analyzeFiles never raises: no exception leaves it, and once no I/O is
\* pending the call has returned its result list, whatever reads and
\* augmentation calls failed
C3_NeverRaises ==
    /\ pc # "raised"
    /\ (pc # "idle" /\ inflight = {}) =>
          (pc = "returned" /\ Len(results) = Len(files))

C3_Witness ==
    /\ pc = "returned"
    /\ FailedReads # {}
    /\ \E j \in 1..Len(svcLog) : svcLog[j].outcome = "failed"

\* C4: when the augmentation call of a file has failed, the file's result is
\* there, without aiSuggestions, with exactly the errors and warnings of the
\* scan in their own sequences, and it is no file-read-error result
C4_AugmentationFailureKeepsFindings ==
    \A j \in 1..Len(svcLog) :
        svcLog[j].outcome = "failed" =>
            /\ pc # "raised"
            /\ Len(results) >= svcLog[j].idx
            /\ LET r == results[svcLog[j].idx]
               IN  /\ r.file = svcLog[j].filename
                   /\ ~r.aiSuggestions.defined
                   /\ r.issues = FileScan[svcLog[j].content].issues
                   /\ r.warnings = FileScan[svcLog[j].content].warnings
                   /\ r.issues = svcLog[j].issues
                   /\ r.warnings = svcLog[j].warnings
                   /\ \A n \in 1..Len(r.issues) : r.issues[n].rule # "file-read-error"

C4_Witness ==
    \E j \in 1..Len(svcLog) :
        /\ svcLog[j].outcome = "failed"
        /\ Len(svcLog[j].issues) > 0
        /\ Len(svcLog[j].warnings) > 0
        /\ Len(results) >= svcLog[j].idx

\* C5: the augmentation service is called only with a configured client and
\* for a file whose scan produced a finding, at most once per file; a file
\* without findings, or an analyser without client, causes no call
C5_AugmentationOnlyWhenNeeded ==
    /\ \A j \in 1..Len(svcLog) :
          /\ hasService
          /\ Len(svcLog[j].issues) + Len(svcLog[j].warnings) > 0
          /\ svcLog[j].issues = FileScan[svcLog[j].content].issues
          /\ svcLog[j].warnings = FileScan[svcLog[j].content].warnings
    /\ \A k \in 1..Len(files) : Cardinality(CallsFor(k)) <= 1
    /\ \A k \in 1..Len(results) :
          (~hasService \/ NumFindings(results[k]) = 0) => CallsFor(k) = {}
    /\ svcLog # <<>> => hasService

C5_Witness ==
    /\ hasService
    /\ pc = "returned"
    /\ \E k \in GoodReads : NumFindings(results[k]) = 0 /\ CallsFor(k) = {}
    /\ \E k \in GoodReads : NumFindings(results[k]) > 0 /\ CallsFor(k) # {}

C10_OneFileAtATime ==
    /\ Cardinality(inflight) <= 1
    /\ \A op \in inflight :
          /\ Len(results) = op.idx - 1
          /\ Len(readLog) = IF op.kind = "read" THEN op.idx - 1 ELSE op.idx
          /\ \A j \in 1..Len(svcLog) :
                /\ svcLog[j].idx <= op.idx
                /\ svcLog[j].outcome = "pending" =>
                      (op.kind = "service" /\ svcLog[j].idx = op.idx)
    /\ \A k \in 1..Len(readLog) : readLog[k].idx = k

C10_Witness ==
    /\ inflight = {[kind |-> "read", idx |-> 3]}
    /\ CallsFor(1) # {}
    /\ 2 \in FailedReads

(***************************************************************************)
(* Properties of the results of analyzeFile and analyzeFiles (SpecAny).    *)
(***************************************************************************)
Returned == {results[k] : k \in 1..Len(results)} \cup {ret[k] : k \in 1..Len(ret)}
Range(q) == {q[k] : k \in 1..Len(q)}
RuleIndex(rule) == CHOOSE k \in 1..Len(Patterns) : Patterns[k].rule = rule
RuleNames == {Patterns[k].rule : k \in 1..Len(Patterns)}

\* C6: severity partition: in every returned result the issues are all of
\* severity error and the warnings all of severity warning, which for a
\* finding of a rule of the table is the severity the table declares, and no
\* finding is in both sequences
C6_SeverityPartition ==
    \A r \in Returned :
        /\ \A f \in Range(r.issues) : f.severity = "error"
        /\ \A f \in Range(r.warnings) : f.severity = "warning"
        /\ \A f \in Range(r.issues) \cup Range(r.warnings) :
              f.rule \in RuleNames => f.severity = Patterns[RuleIndex(f.rule)].severity
        /\ Range(r.issues) \cap Range(r.warnings) = {}

C6_Witness ==
    /\ \E r \in Range(results) : Len(r.issues) > 0 /\ Len(r.warnings) > 0
    /\ \E r \in Range(results) : Len(r.issues) = 1 /\ r.issues[1].rule = "file-read-error"

(***************************************************************************)
(* Properties of the scan of analyzeFile (checked under SpecScan).         *)
(***************************************************************************)
NewlinePositions(c) == {p \in 1..Len(c) : CharAt(c, p) = "\n"}
NumLines(c) == Cardinality(NewlinePositions(c)) + 1

\* the position of the n-th newline of c; 0 before the first line and
\* Len(c) + 1 after the last
NewlineAt(c, n) ==
    IF n = 0 THEN 0
    ELSE IF n > Cardinality(NewlinePositions(c)) THEN Len(c) + 1
    ELSE CHOOSE p \in NewlinePositions(c) :
             Cardinality({q \in NewlinePositions(c) : q < p}) = n - 1

\* the n-th line (from 1) of c split on newlines
NthLine(c, n) == SubSeq(c, NewlineAt(c, n - 1) + 1, NewlineAt(c, n) - 1)

\* the rules (by position in the table) whose pattern matches a line
MatchingRules == [l \in LinePool |-> {k \in 1..Len(Patterns) : Matches(Patterns[k].regex, l)}]

Findings(r) == Range(r.issues) \cup Range(r.warnings)

\* C7: for every line of the content and every rule whose pattern matches
\* the line, the result of the scan has a finding of that rule on that line
C7_EveryMatchReported ==
    \A k \in 1..Len(ret) :
        \A n \in 1..NumLines(call[1].content) :
            \A m \in MatchingRules[NthLine(call[1].content, n)] :
                \E f \in Findings(ret[k]) :
                    f.line = n /\ f.rule = Patterns[m].rule

C7_Witness ==
    /\ ret # <<>>
    /\ NumLines(call[1].content) >= 2
    /\ \E m1, m2 \in MatchingRules[NthLine(call[1].content, 2)] :
          /\ m1 # m2
          /\ Patterns[m1].severity # Patterns[m2].severity
    /\ Cardinality(MatchingRules[NthLine(call[1].content, 1)]) >= 3

Ordered(q) ==
    \A a \in 1..Len(q), b \in 1..Len(q) :
        a < b =>
            \/ q[a].line < q[b].line
            \/ q[a].line = q[b].line /\ RuleIndex(q[a].rule) < RuleIndex(q[b].rule)

\* C8: the issues and the warnings of a scan are each ordered by line
\* number and, on one line, by the position of the rule in the table; the
\* line number of a finding is the 1-based position, in the content split
\* on newlines, of a line the rule matches, empty lines being counted and
\* giving no finding
C8_FindingsOrderedByLineThenRule ==
    \A k \in 1..Len(ret) :
        /\ Ordered(ret[k].issues)
        /\ Ordered(ret[k].warnings)
        /\ \A f \in Findings(ret[k]) :
              /\ f.line \in 1..NumLines(call[1].content)
              /\ NthLine(call[1].content, f.line) # ""
              /\ RuleIndex(f.rule) \in MatchingRules[NthLine(call[1].content, f.line)]

C8_Witness ==
    /\ ret # <<>>
    /\ NthLine(call[1].content, 1) = ""
    /\ Len(ret[1].warnings) >= 1
    /\ Len(ret[1].issues) >= 2
    /\ \A f \in Findings(ret[1]) : f.line = 2

\* C20: every line that mentions beforeUpdate or afterUpdate as a whole word
\* yields, in the result of the scan, a finding of rule lifecycle-hooks on
\* that line whose severity is error and which is placed in issues
C20_LifecycleHooksAreErrors ==
    \A k \in 1..Len(ret) :
        \A n \in 1..NumLines(call[1].content) :
            RuleIndex("lifecycle-hooks") \in MatchingRules[NthLine(call[1].content, n)]
                => \E f \in Range(ret[k].issues) :
                       /\ f.line = n
                       /\ f.rule = "lifecycle-hooks"
                       /\ f.severity = "error"

(***************************************************************************)
(* Properties of the augmentation service (checked under SpecService).     *)
(***************************************************************************)
Contains(s, sub) == \E p \in 1..(Len(s) + 1) : HasAt(s, p, sub)

\* the numbers of the lines of an answer that are not blank
NonBlank(r) ==
    {n \in 1..NumLines(r) : \E p \in 1..Len(NthLine(r, n)) : CharAt(NthLine(r, n), p) \notin TrimChars}

\* the line begins, after trimming, with digits and a dot, or with - or *
StartsWithMarker(line) ==
    LET t == Trim(line)
    IN  \/ CharAt(t, 1) \in {"-", "*"}
        \/ \E n \in 1..Len(t) :
               /\ \A p \in 1..n : CharAt(t, p) \in DigitChars
               /\ CharAt(t, n + 1) = "."

MarkerLines(r) == {n \in NonBlank(r) : StartsWithMarker(NthLine(r, n))}

\* the lines where a unit starts: the marker lines, and the first non-blank line
UnitStarts(r) == MarkerLines(r) \cup {n \in NonBlank(r) : n = Min(NonBlank(r))}

\* the lines of the unit that starts at line a: up to the next start
UnitLines(r, a) == {n \in NonBlank(r) : n >= a /\ \A b \in UnitStarts(r) : b > a => n < b}

\* the trimmed lines of S, in order, joined by single spaces
RECURSIVE JoinSet(_, _)
JoinSet(r, S) ==
    IF S = {}
    THEN ""
    ELSE LET n == Min(S)
         IN  Trim(NthLine(r, n)) \o (IF S = {n} THEN "" ELSE " " \o JoinSet(r, S \ {n}))

UnitText(r, a) == JoinSet(r, UnitLines(r, a))

Ith(S, i) == CHOOSE n \in S : Cardinality({m \in S : m < n}) = i - 1

\* the units of an answer, in the order of the answer
ExpectedUnits(r) == [i \in 1..Cardinality(UnitStarts(r)) |-> UnitText(r, Ith(UnitStarts(r), i))]

SuggestionsReturned == apc = "returned" /\ areq[1].method = "analyzeSvelteFile"

\* C16: suggestion filter: the sequence analyzeSvelteFile returns holds no
\* unit of trimmed length 10 or less, and is exactly the units of the answer
\* of trimmed length greater than 10, in the order of the answer
C16_SuggestionFilter ==
    SuggestionsReturned =>
        /\ \A k \in 1..Len(aret[1]) : Len(Trim(aret[1][k])) > 10
        /\ aret[1] = SelectSeq(ExpectedUnits(areq[1].responseText),
                               LAMBDA u : Len(Trim(u)) > 10)

C16_Witness ==
    /\ SuggestionsReturned
    /\ Len(aret[1]) >= 2
    /\ \E a \in UnitStarts(areq[1].responseText) :
           Len(UnitText(areq[1].responseText, a)) = 10

\* C17: every line that begins, after trimming, with a numbered or bullet
\* marker starts a new unit to which the following non-blank lines without a
\* marker are appended up to the next marker (the unit is returned when it is
\* longer than 10), and no returned suggestion contains the text of a run of
\* lines that holds two marker lines
C17_UnitsSplitAtMarkers ==
    SuggestionsReturned =>
        LET r == areq[1].responseText
        IN  /\ \A a \in MarkerLines(r) :
                   Len(UnitText(r, a)) > 10 => UnitText(r, a) \in Range(aret[1])
            /\ \A k \in 1..Len(aret[1]) :
                   \A m1 \in MarkerLines(r) : \A m2 \in MarkerLines(r) :
                       m1 < m2 => ~Contains(aret[1][k], JoinSet(r, {n \in NonBlank(r) : n >= m1 /\ n <= m2}))
            /\ Len(aret[1]) <= Cardinality(UnitStarts(r))

C17_Witness ==
    /\ SuggestionsReturned
    /\ Cardinality(MarkerLines(areq[1].responseText)) = 2
    /\ \E a \in MarkerLines(areq[1].responseText) :
           /\ Cardinality(UnitLines(areq[1].responseText, a)) = 2
           /\ NthLine(areq[1].responseText, a) # Trim(NthLine(areq[1].responseText, a))
    /\ Len(aret[1]) = 2

ComponentReturned == apc = "returned" /\ areq[1].method = "getSvelteComponentSuggestions"

\* C18: the two sections of the answer to getSvelteComponentSuggestions are
\* parsed independently: without the code marker the code is empty, without
\* the steps marker the steps are empty, an answer with only a fenced code
\* section yields its code, an answer with only a steps section yields its
\* numbered steps, and an answer of the API never makes the method throw
C18_SectionsIndependent ==
    /\ (areq # <<>> /\ areq[1].resolved) => apc = "returned"
    /\ ComponentReturned =>
        LET r == areq[1].responseText
        IN  /\ ~Contains(r, CodeMarker) => aret[1].modernised_code = ""
            /\ ~Contains(r, StepsMarker) => aret[1].migration_steps = <<>>
            /\ \A pre \in Preambles : \A body \in CodeBodies :
                   r = pre \o FencedCode(body) => aret[1].modernised_code = Trim(body)
            /\ \A pre \in Preambles : \A list \in StepLists :
                   r = pre \o StepsSection(list)
                       => aret[1].migration_steps = <<Trim(list[1]), Trim(list[2])>>

C18_Witness ==
    /\ ComponentReturned
    /\ Contains(areq[1].responseText, CodeMarker)
    /\ ~Contains(areq[1].responseText, StepsMarker)
    /\ aret[1].modernised_code # ""
    /\ aret[1].migration_steps = <<>>

(***************************************************************************)
(* Properties of the run and of its summary (checked under SpecRun).       *)
(***************************************************************************)
StartsWith(s, prefix) == HasAt(s, 1, prefix)
EndsWith(s, suffix) == HasAt(s, Len(s) - Len(suffix) + 1, suffix)

\* the run has set its outputs after an analysis
Reported == outputs # <<>> /\ files # <<>>

\* the findings of a kind of all results, counted one by one
SumOf(word) ==
    Cardinality(UNION {{<<k, n>> : n \in 1..Len(FindingsOf(results[k], word))} :
                           k \in 1..Len(results)})

\* the places of the pieces of the summary that start with prefix
PiecesWith(prefix) ==
    {k \in 1..Len(outputs[1].summary) : StartsWith(outputs[1].summary[k], prefix)}

\* the pieces after the heading that starts with prefix, up to the next heading
SectionUnder(prefix) ==
    LET S == outputs[1].summary
        h == Min(PiecesWith(prefix))
        next == Min({k \in (h + 1)..(Len(S) + 1) : k = Len(S) + 1 \/ StartsWith(S[k], "## ")})
    IN  SubSeq(S, h + 1, next - 1)

HeadingOf(word) == IF word = "issue" THEN "## Issues (" ELSE "## Warnings ("

\* the results with findings of a kind, in result order
ResultsWith(word) == SelectSeq(results, LAMBDA r : Len(FindingsOf(r, word)) > 0)

\* the findings of a kind of the first k results, in order
RECURSIVE FindingsUpTo(_, _)
FindingsUpTo(word, k) ==
    IF k = 0 THEN <<>> ELSE FindingsUpTo(word, k - 1) \o FindingsOf(results[k], word)

LabelsUnder(word) ==
    SelectSeq(SectionUnder(HeadingOf(word)), LAMBDA c : StartsWith(c, "<summary>"))

FindingPiecesUnder(word) ==
    SelectSeq(SectionUnder(HeadingOf(word)), LAMBDA c : StartsWith(c, "- **Line "))

\* C11: when both totals are zero the summary holds the no-issues message
\* and ends with it: no summary block or other heading, no per-file section
\* and no reference link
C11_NoIssuesSummary ==
    (Reported /\ SumOf("issue") = 0 /\ SumOf("warning") = 0) =>
        LET S == outputs[1].summary
        IN  /\ \E k \in 1..Len(S) :
                   /\ Contains(S[k], "No Svelte 4 patterns detected")
                   /\ Len(S) = k + 1
                   /\ S[k + 1] = "Your project appears to be ready for Svelte 5!\n"
            /\ \A k \in 1..Len(S) :
                   /\ ~StartsWith(S[k], "## ")
                   /\ ~StartsWith(S[k], "<details>")
                   /\ ~StartsWith(S[k], "<summary>")
                   /\ ~Contains(S[k], "](https://")

C11_Witness ==
    /\ Reported
    /\ rpc = "done"
    /\ Len(results) = 2
    /\ SumOf("issue") = 0 /\ SumOf("warning") = 0

\* the section of a kind is as C12 says: one collapsible section for exactly
\* each result with a finding of the kind, in result order, and every such
\* finding listed once, in order
SectionAsResults(word) ==
    LET section == SectionUnder(HeadingOf(word))
        labels == LabelsUnder(word)
        lines == FindingPiecesUnder(word)
        with == ResultsWith(word)
        all == FindingsUpTo(word, Len(results))
    IN  /\ Len(labels) = Len(with)
        /\ \A i \in 1..Len(labels) :
               Contains(labels[i], "<code>" \o with[i].file \o "</code>")
        /\ Len(SelectSeq(section, LAMBDA c : c = "<details>\n")) = Len(with)
        /\ Len(SelectSeq(section, LAMBDA c : c = "\n</details>\n\n")) = Len(with)
        /\ Len(lines) = Len(all)
        /\ \A i \in 1..Len(lines) :
               lines[i] = "- **Line " \o ToString(all[i].line) \o ":** "
                              \o all[i].message \o "\n"

\* C12: when a total is not zero the summary has the summary block with the
\* number of results and the two totals, an Issues section exactly when there
\* are errors and a Warnings section exactly when there are warnings, each as
\* SectionAsResults says, and the block of reference links closes the report
C12_ReportStructure ==
    (Reported /\ (SumOf("issue") > 0 \/ SumOf("warning") > 0)) =>
        LET S == outputs[1].summary
        IN  /\ SubSeq(S, 2, 5) =
                   <<"## Summary\n\n",
                     "- **Files analyzed:** " \o ToString(Len(results)) \o "\n",
                     "- **Issues found:** " \o ToString(SumOf("issue")) \o "\n",
                     "- **Warnings found:** " \o ToString(SumOf("warning")) \o "\n\n">>
            /\ \A word \in {"issue", "warning"} :
                   /\ (PiecesWith(HeadingOf(word)) # {}) <=> (SumOf(word) > 0)
                   /\ Cardinality(PiecesWith(HeadingOf(word))) <= 1
                   /\ SumOf(word) > 0 => SectionAsResults(word)
            /\ \A i \in PiecesWith("## Issues (") : \A w \in PiecesWith("## Warnings (") : i < w
            /\ PiecesWith("## Migration Resources") = {Len(S) - 3}
            /\ \A k \in (Len(S) - 2)..Len(S) : StartsWith(S[k], "- [")

C12_Witness ==
    /\ Reported
    /\ Len(results) = 2
    /\ Len(results[1].issues) = 0 /\ Len(results[1].warnings) = 1
    /\ Len(results[2].issues) = 3 /\ Len(results[2].warnings) = 2

\* C13: the label of a file's section ends with the count and the word in the
\* singular exactly when the count is 1 and in the plural otherwise, and the
\* heading of the section gives the total
C13_SingularPlural ==
    Reported =>
        \A word \in {"issue", "warning"} :
            SumOf(word) > 0 =>
                /\ outputs[1].summary[Min(PiecesWith(HeadingOf(word)))]
                       = HeadingOf(word) \o ToString(SumOf(word)) \o ")\n\n"
                /\ Len(LabelsUnder(word)) = Len(ResultsWith(word))
                /\ \A i \in 1..Len(ResultsWith(word)) :
                       LET n == Len(FindingsOf(ResultsWith(word)[i], word))
                       IN  EndsWith(LabelsUnder(word)[i],
                                    " - " \o ToString(n) \o " "
                                        \o (IF n = 1 THEN word ELSE word \o "s")
                                        \o "</summary>\n\n")

C13_Witness ==
    /\ Reported
    /\ \E k \in 1..Len(results) : Len(results[k].issues) = 1
    /\ \E k \in 1..Len(results) : Len(results[k].issues) > 1 /\ Len(results[k].warnings) > 1
    /\ PiecesWith("## Issues (4)") # {}

\* C14: after an analysis the files-analyzed output is the number of input
\* paths, failed reads included, and so is the file count of the summary
\* block when the summary has one
C14_FilesAnalyzedIsPathCount ==
    Reported =>
        /\ outputs[1].filesAnalyzed = Len(files)
        /\ \A k \in PiecesWith("- **Files analyzed:**") :
               outputs[1].summary[k] = "- **Files analyzed:** " \o ToString(Len(files)) \o "\n"
        /\ (SumOf("issue") > 0 \/ SumOf("warning") > 0)
               => PiecesWith("- **Files analyzed:**") # {}

C14_Witness ==
    /\ Reported
    /\ Len(files) = 2
    /\ \E k \in 1..Len(readLog) : ~readLog[k].ok
    /\ \E k \in 1..Len(readLog) : readLog[k].ok
    /\ outputs[1].filesAnalyzed = 2

\* C15: issues-found is the sum of the lengths of the issues of all results,
\* warnings-found the sum of the lengths of their warnings, and has-issues is
\* true exactly when one of the sums is greater than zero
C15_TotalsAreSums ==
    Reported =>
        /\ outputs[1].issuesFound = SumOf("issue")
        /\ outputs[1].warningsFound = SumOf("warning")
        /\ outputs[1].hasIssues <=> (SumOf("issue") > 0 \/ SumOf("warning") > 0)

C15_Witness ==
    /\ Reported
    /\ outputs[1].issuesFound = 4
    /\ outputs[1].warningsFound = 2
    /\ outputs[1].hasIssues

\* C19: when enable-ai-analysis is true and the credential is absent, the
\* run analyses no file and ends with a reported failure
C19_MissingCredentialFailsAtStartup ==
    (rpc # "init" /\ config.enableAiAnalysis /\ config.anthropicApiKey = "") =>
        /\ files = <<>>
        /\ readLog = <<>>
        /\ rpc = "done" => failed # <<>>

(***************************************************************************)
(* Properties of the platform service.                                     *)
(***************************************************************************)
\* the operation in progress or last completed
LastOp == IF gcall = <<>> THEN "" ELSE gcall[1].op

\* the places of the log of the requests to one of the endpoints
RequestsTo(apis) == {k \in 1..Len(ghLog) : ghLog[k].api \in apis}

\* C24: a check run made for i issues and w warnings concludes 'failure' when
\* i > 0 whatever w is, 'neutral' when i = 0 and w > 0, and 'success' only
\* when both are zero.
C24_CheckRunConclusion ==
    LastOp = "createCheckRun" =>
        \A k \in RequestsTo({"checks.create"}) :
            LET c == ghLog[k].arg.conclusion
                i == gcall[1].issues
                w == gcall[1].warnings
            IN  /\ i > 0 => c = "failure"
                /\ i = 0 /\ w > 0 => c = "neutral"
                /\ c = "success" <=> (i = 0 /\ w = 0)

C24_Witness ==
    /\ LastOp = "createCheckRun"
    /\ gpc = "returned"
    /\ gcall[1].issues > 0
    /\ gcall[1].warnings > 0
    /\ Len(ghLog) = 1
    /\ ghLog[1].outcome = "ok"
    /\ ghLog[1].arg.conclusion = "failure"

\* the annotations of the requests from the k-th on, one after the other
RECURSIVE AnnotationsFrom(_)
AnnotationsFrom(k) ==
    IF k > Len(ghLog) THEN <<>> ELSE ghLog[k].arg.annotations \o AnnotationsFrom(k + 1)

\* every request of createAnnotations made so far has succeeded
AllAnnotated ==
    /\ LastOp = "createAnnotations"
    /\ gpc = "returned"
    /\ \A k \in 1..Len(ghLog) : ghLog[k].outcome = "ok"

CommentWrites == {"issues.updateComment", "issues.createComment"}

\* the body, a sequence of pieces, holds the marker
HoldsMarker(body) == \E n \in 1..Len(body) : Contains(body[n], CommentMarker)

\* the listed comments that hold the marker
Marked(listed) == {n \in 1..Len(listed) : HoldsMarker(listed[n].body)}

CommentCallsCompleted ==
    /\ LastOp = "createOrUpdateComment"
    /\ gcall[1].caller = "test"
    /\ ~NoPullRequest(config)
    /\ gpc = "returned"
    /\ \A k \in 1..Len(ghLog) :
           /\ ghLog[k].outcome = "ok"
           /\ ghLog[k].api = "issues.listComments" => Len(ghLog[k].data) = ghLog[k].held

\* C28: after any sequence of completed createOrUpdateComment calls on one
\* pull request, each ended before the next starts, with every request
\* succeeding and every listing complete, the pull request holds at most one
\* comment with the marker, and its body carries the summary of the last call.
C28_OneMarkerComment ==
    CommentCallsCompleted =>
        /\ Cardinality(Marked(prComments)) <= 1
        /\ \A n \in Marked(prComments) :
               prComments[n].body = <<CommentMarker \o "\n">> \o gcall[1].summary

C28_Witness ==
    /\ CommentCallsCompleted
    /\ Cardinality(RequestsTo({"issues.listComments"})) = 2
    /\ Len(prComments) = 2
    /\ Cardinality(Marked(prComments)) = 1
    /\ ghLog[2].arg.body # ghLog[4].arg.body

(***************************************************************************)
(* Properties of the run and the platform.                                 *)
(***************************************************************************)
\* the run has marked the action failed because of its findings
FailedByFindings == \E k \in 1..Len(failed) : StartsWith(failed[k], "Migration analysis failed")

\* C22: the action is marked failed because of findings exactly when
\* fail-on-error is set and there is at least one error finding, or
\* fail-on-warning is set and there is at least one warning finding; with both
\* flags false no number of findings fails it.
C22_FailsIffRequested ==
    rpc = "done" /\ Reported =>
        /\ FailedByFindings <=>
               \/ config.failOnError /\ SumOf("issue") > 0
               \/ config.failOnWarning /\ SumOf("warning") > 0
        /\ ~config.failOnError /\ ~config.failOnWarning => failed = <<>>

C22_Witness ==
    /\ rpc = "done"
    /\ Reported
    /\ ~config.failOnError
    /\ config.failOnWarning
    /\ SumOf("issue") > 0
    /\ SumOf("warning") = 0
    /\ failed = <<>>

CommentApis == {"issues.listComments"} \cup CommentWrites

\* C29: a run makes comment requests only when the event is a pull request and
\* there is at least one finding; a run without findings makes no comment
\* request, so an earlier comment with the marker keeps its body.
C29_CommentOnlyForFindings ==
    /\ RequestsTo(CommentApis) # {} =>
           /\ config.eventName = "pull_request"
           /\ Reported
           /\ SumOf("issue") + SumOf("warning") > 0
    /\ rpc = "done" /\ SumOf("issue") + SumOf("warning") = 0 =>
           /\ RequestsTo(CommentApis) = {}
           /\ \A n \in Marked(prComments) :
                  prComments[n].body = <<CommentMarker \o "\n", "## Earlier analysis">>

C29_Witness ==
    /\ rpc = "done"
    /\ Reported
    /\ config.eventName = "pull_request"
    /\ config.pullNumber # 0
    /\ SumOf("issue") + SumOf("warning") = 0
    /\ Marked(prComments) # {}
    /\ ghLog = <<>>

\* the listing of the changed files was asked for and failed
ListingFailed ==
    /\ ghLog # <<>>
    /\ ghLog[1].api = "pulls.listFiles"
    /\ ghLog[1].outcome = "failed"

\* C30: in changed-files mode on a pull request, when the listing of the changed
\* files fails or there is no pull request number, the run analyses no file,
\* sets files-analyzed, issues-found and warnings-found to 0 and has-issues to
\* false, posts no comment, and is not marked failed, even with both fail-on
\* flags set.
C30_NoChangedFilesNoFailure ==
    UsesChangedFiles(config) /\ rpc = "done" /\ (config.pullNumber = 0 \/ ListingFailed) =>
        /\ files = <<>>
        /\ readLog = <<>>
        /\ Len(outputs) = 1
        /\ outputs[1].filesAnalyzed = 0
        /\ outputs[1].issuesFound = 0
        /\ outputs[1].warningsFound = 0
        /\ outputs[1].hasIssues = FALSE
        /\ comments = <<>>
        /\ RequestsTo(CommentApis) = {}
        /\ failed = <<>>

C30_Witness ==
    /\ UsesChangedFiles(config)
    /\ rpc = "done"
    /\ ListingFailed
    /\ config.failOnError
    /\ config.failOnWarning
    /\ outputs # <<>>
    /\ failed = <<>>

\* C26: no operation of the platform service lets a failure of the platform
\* API escape: getChangedSvelteFiles returns the empty list and the others
\* complete; so a comment that could not be posted changes neither the outputs
\* nor whether the action is marked failed.
C26_PlatformFailuresContained ==
    /\ gpc # "threw"
    /\ ghLog # <<>> /\ ghLog[Len(ghLog)].outcome = "failed" =>
           /\ gpc = "returned"
           /\ LastOp = "getChangedSvelteFiles" => gret = <<>>
    /\ rpc = "done" /\ (\E k \in RequestsTo(CommentApis) : ghLog[k].outcome = "failed") =>
           /\ outputs = <<SetOutputs(files, results)>>
           /\ FailedByFindings <=>
                  \/ config.failOnError /\ SumOf("issue") > 0
                  \/ config.failOnWarning /\ SumOf("warning") > 0
           /\ \A k \in 1..Len(failed) : StartsWith(failed[k], "Migration analysis failed")

C26_Witness ==
    /\ rpc = "done"
    /\ \E k \in RequestsTo(CommentWrites) : ghLog[k].outcome = "failed"
    /\ config.failOnError
    /\ SumOf("issue") > 0
    /\ Len(failed) = 1
    /\ prComments = <<>>

(***************************************************************************)
(* Properties of the rules.                                                *)
(***************************************************************************)
Runes == {"state", "derived", "effect", "props", "inspect"}

\* the word that follows position p of a line: the longest run of word
\* characters from p + 1 on
WordAfter(l, p) ==
    LET end == Min({q \in (p + 1)..(Len(l) + 1) : CharAt(l, q) \notin WordChars})
    IN  SubSeq(l, p + 1, end - 1)

\* the names of the identifiers of a line that begin with '$'
DollarNames(l) == {WordAfter(l, p) : p \in {q \in 1..Len(l) : CharAt(l, q) = "$"}} \ {""}

\* the findings of a rule on a line, by their place in the issues or warnings
FindingsAt(r, rule, n) ==
    {<<"issues", i>> : i \in {j \in 1..Len(r.issues) :
                                 r.issues[j].rule = rule /\ r.issues[j].line = n}}
      \cup {<<"warnings", i>> : i \in {j \in 1..Len(r.warnings) :
                                          r.warnings[j].rule = rule /\ r.warnings[j].line = n}}

\* C21: the store-subscription rule gives no finding for a line whose only
\* identifiers with a '$' in front are runes ($state, $derived, $effect,
\* $props, $inspect), such as 'let x = $state(0);', while a line with
\* '$count = 5' gives exactly one store-subscription finding, a warning.
C21_RunesAreNotStores ==
    \A k \in 1..Len(ret) :
        \A n \in 1..NumLines(call[1].content) :
            LET l == NthLine(call[1].content, n)
            IN  /\ DollarNames(l) \subseteq Runes =>
                       FindingsAt(ret[k], "store-subscription", n) = {}
                /\ Contains(l, "$count = 5") =>
                       /\ Cardinality(FindingsAt(ret[k], "store-subscription", n)) = 1
                       /\ \E i \in 1..Len(ret[k].warnings) :
                              /\ ret[k].warnings[i].rule = "store-subscription"
                              /\ ret[k].warnings[i].line = n
                              /\ ret[k].warnings[i].severity = "warning"

C21_Witness ==
    /\ ret # <<>>
    /\ NumLines(call[1].content) = 2
    /\ DollarNames(NthLine(call[1].content, 1)) = Runes
    /\ Contains(NthLine(call[1].content, 1), "$state = 1")
    /\ Contains(NthLine(call[1].content, 2), "$count = 5")
    /\ Len(SelectSeq(ret[1].warnings, LAMBDA f : f.rule = "store-subscription")) = 1

\* C27: a rule gives at most one finding per line, however often its pattern
\* occurs in the line: the findings of a rule are as many as the lines the
\* rule matches, one on each of them.
C27_OneFindingPerRuleAndLine ==
    \A k \in 1..Len(ret) :
        \A m \in 1..Len(Patterns) :
            /\ \A n \in 1..NumLines(call[1].content) :
                   Cardinality(FindingsAt(ret[k], Patterns[m].rule, n)) =
                       IF m \in MatchingRules[NthLine(call[1].content, n)] THEN 1 ELSE 0
            /\ Len(SelectSeq(ret[k].issues, LAMBDA f : f.rule = Patterns[m].rule))
                 + Len(SelectSeq(ret[k].warnings, LAMBDA f : f.rule = Patterns[m].rule))
                 = Cardinality({n \in 1..NumLines(call[1].content) :
                                   m \in MatchingRules[NthLine(call[1].content, n)]})

C27_Witness ==
    /\ ret # <<>>
    /\ NumLines(call[1].content) = 2
    /\ \A n \in 1..2 :
           /\ Contains(NthLine(call[1].content, n), "beforeUpdate")
           /\ Contains(NthLine(call[1].content, n), "afterUpdate")
    /\ Len(SelectSeq(ret[1].issues, LAMBDA f : f.rule = "lifecycle-hooks"))
         + Len(SelectSeq(ret[1].warnings, LAMBDA f : f.rule = "lifecycle-hooks")) = 2

====
